---- MODULE Spec2Model ----
(***************************************************************************)
(* Payment-execution core of the Pactum wallet service                     *)
(* (packages/wallet): pay / confirm / cancel, the UserOp settlement        *)
(* pipeline, the deposit scanner and the expired-payment reaper.           *)
(*                                                                         *)
(* The service is one asyncio process.  A coroutine runs without           *)
(* interruption between two awaits (the Supabase and web3 clients are the  *)
(* synchronous ones), so every action below is one await-free segment of   *)
(* a handler.  The relay (bundler), the chain and the clock are the        *)
(* environment.                                                            *)
(***************************************************************************)
EXTENDS Integers, Sequences, FiniteSets, TLC

(* ------------------------------ bounds -------------------------------- *)
MaxCalls == 2
MaxPayments == 1
MaxHeight == 2
MaxTime == 11
InitialBalance == 20
MaxQuiet == 2

(* ------------------------- program constants --------------------------- *)
PENDING_PAYMENT_TTL_MINUTES == 10
DEFAULT_PER_TX_LIMIT == 10
DEFAULT_DAILY_LIMIT == 50
DEFAULT_CONFIRM_THRESHOLD == 5
SCAN_WINDOW == 2000
NoBlock == -1
USDC_DECIMALS == 6

(* ------------------------------ inputs --------------------------------- *)
Users == {"u1", "u2"}
Payers == {"u1"}
Amounts == {3, 7, 12}
Memos == {"lunch"}
NoPayment == 0

wallet_address(u) == IF u = "u1" THEN "0xEOA1" ELSE "0xEOA2"
smart_account_address(u) == IF u = "u1" THEN "0xSA1" ELSE "0xSA2"

\* str.lower() on the addresses of the model: chain events carry the
\* checksum (mixed-case) form, callers may pass either form.
Lower(a) ==
    CASE a = "0xEOA1" -> "0xeoa1"
      [] a = "0xEOA2" -> "0xeoa2"
      [] a = "0xSA1" -> "0xsa1"
      [] a = "0xSA2" -> "0xsa2"
      [] a = "0xEXT" -> "0xext"
      [] OTHER -> a

\* Web3.to_checksum_address on the addresses of the model.
to_checksum_address(a) ==
    CASE a = "0xeoa1" -> "0xEOA1"
      [] a = "0xeoa2" -> "0xEOA2"
      [] a = "0xsa1" -> "0xSA1"
      [] a = "0xsa2" -> "0xSA2"
      [] a = "0xext" -> "0xEXT"
      [] OTHER -> a

\* The destination a caller passes to pay(): another account of the
\* service, in lower case.
PayDests == {"0xsa2"}
\* Destinations of transfers made by third parties on the chain.
ExternalDests == {"0xSA1", "0xEXT"}
ExternalValue == 4
\* The destination of withdraw(), the escrow contract of escrow_deposit()
\* and the contract of contract_call().
WithdrawDests == {"0xEXT"}
EscrowContract == "0xESCROW"
OtherContract == "0xNFT"
\* withdraw() is tried above the confirmation threshold and above the
\* per-transaction limit, escrow_deposit() above the threshold.
WithdrawAmounts == {7, 12}
EscrowAmounts == {7}
\* The token contract, order and seller a caller passes to escrow_deposit().
UsdcContract == "0xUSDC"
OrderId == "0xORDER"
Seller == "0xSELLER"
\* The amount field of a request body: whole token amounts, which
\* float() represents exactly; one is zero and one negative.
RequestAmounts == Amounts \cup {0, -3}
\* A field an UpdateSettingsRequest leaves out (its values are > 0).
Unset == 0
\* The bodies of PATCH /settings: nothing set, or a daily limit of 8.
SettingsRequests ==
    {[per_transaction_limit |-> Unset, daily_limit |-> Unset,
      require_confirmation_above |-> Unset],
     [per_transaction_limit |-> Unset, daily_limit |-> 8,
      require_confirmation_above |-> Unset]}

VARIABLES
    wallet_users,             \* table: user id -> row
    wallet_pending_payments,  \* table: rows in insertion order, id = index
    wallet_transactions,      \* table: rows in insertion order
    wallet_events,            \* table: rows in insertion order
    last_scanned_block,       \* scanner.py global _last_scanned_block
    calls,                    \* settlement coroutines, in the order started
    user_ops,                 \* operations the relay accepted, id = index
    chain,                    \* height, EntryPoint nonces, Transfer logs
    now,                      \* wall clock, minutes
    last                      \* response of the latest request that
                              \* returned without settling

vars == <<wallet_users, wallet_pending_payments, wallet_transactions,
          wallet_events, last_scanned_block, calls, user_ops, chain, now, last>>

store == <<wallet_users, wallet_pending_payments, wallet_transactions,
           wallet_events>>

(* ------------------------------ helpers -------------------------------- *)
RECURSIVE SumValues(_)
SumValues(evts) ==
    IF evts = <<>> THEN 0
    ELSE Head(evts).value + SumValues(Tail(evts))

RECURSIVE SumAmounts(_)
SumAmounts(rows) ==
    IF rows = <<>> THEN 0
    ELSE Head(rows).amount + SumAmounts(Tail(rows))

Range(s) == {s[i] : i \in DOMAIN s}

\* chain.usdc.get_balance: token balance of an address, from the logs.
get_balance(addr) ==
    LET in_(l) == l.to = addr
        out(l) == l.from = addr
        base == IF addr \in {smart_account_address(u) : u \in Users}
                THEN InitialBalance ELSE 0
    IN base + SumValues(SelectSeq(chain.logs, in_))
            - SumValues(SelectSeq(chain.logs, out))

\* userop.builder.get_nonce: EntryPoint.getNonce(sender, 0).
get_nonce(u) == chain.nonce[u]

tx_hash_of(block) == <<"tx", block>>
user_op_hash_of(k) == <<"op", k>>


(* ------------------------------- Init ---------------------------------- *)
\* A registered account has not settled yet, or it is an account that made
\* its first settlement on an earlier day: deployed, flagged so, its nonce
\* used once, and its rows of that day out of the window of the tables.
settled_before(d, u) == d /\ u \in Payers

Init ==
  \E d \in BOOLEAN :
    /\ wallet_users = [u \in Users |->
           [smart_account_deployed |-> settled_before(d, u),
            per_transaction_limit |-> DEFAULT_PER_TX_LIMIT,
            daily_limit |-> DEFAULT_DAILY_LIMIT,
            require_confirmation_above |-> DEFAULT_CONFIRM_THRESHOLD]]
    /\ wallet_pending_payments = <<>>
    /\ wallet_transactions = <<>>
    /\ wallet_events = <<>>
    /\ last_scanned_block = NoBlock
    /\ calls = <<>>
    /\ user_ops = <<>>
    /\ chain = [height |-> 0,
                nonce |-> [u \in Users |-> IF settled_before(d, u) THEN 1 ELSE 0],
                deployed |-> [u \in Users |-> settled_before(d, u)],
                logs |-> <<>>]
    /\ now = 0
    /\ last = [op |-> "none", payment_id |-> NoPayment, status |-> "none"]

Response(op, pid, status) == [op |-> op, payment_id |-> pid, status |-> status]

(* --------------------- PaymentOrchestrator: checks --------------------- *)
\* Sum of the caller's payment and withdrawal rows of today.  The clock of
\* the model stays inside one UTC day, so every row is of today.
today_total(u) ==
    LET mine(r) == r.user_id = u /\ r.type \in {"payment", "withdrawal"}
    IN SumAmounts(SelectSeq(wallet_transactions, mine))

\* check_limits without its per-transaction test.
check_limits_daily_only(u, amount) ==
    IF today_total(u) + amount > wallet_users[u].daily_limit
    THEN "daily_limit"
    ELSE "ok"

\* check_limits without its daily test.
check_limits_per_tx_only(u, amount) ==
    IF amount > wallet_users[u].per_transaction_limit THEN "per_tx_limit"
    ELSE "ok"

\* _check_limits on the caller's row: the per-transaction limit first,
\* then the rows of today against the daily limit.
check_limits(u, amount) ==
    IF amount > wallet_users[u].per_transaction_limit THEN "per_tx_limit"
    ELSE IF today_total(u) + amount > wallet_users[u].daily_limit
         THEN "daily_limit"
    ELSE "ok"

requires_confirmation(u, amount) ==
    amount > wallet_users[u].require_confirmation_above

\* The expiry without the time to live.
pending_expires_at_no_ttl(t) == t

pending_expires_at(t) == t + PENDING_PAYMENT_TTL_MINUTES

\* The decision ladder of pay(): limits, balance, confirmation threshold.
pay_outcome(u, amount) ==
    IF check_limits(u, amount) # "ok" THEN check_limits(u, amount)
    ELSE IF get_balance(smart_account_address(u)) < amount
         THEN "insufficient_balance"
    ELSE IF requires_confirmation(u, amount) THEN "pending_confirmation"
    ELSE "settle"

\* The select without its status filter.
select_pending_any_status(u, pid) ==
    /\ pid \in DOMAIN wallet_pending_payments
    /\ wallet_pending_payments[pid].user_id = u

\* The selection without its filter on the caller.
select_pending_any_user(u, pid) ==
    /\ pid \in DOMAIN wallet_pending_payments
    /\ wallet_pending_payments[pid].status = "pending"

\* SELECT * FROM wallet_pending_payments
\*  WHERE id = payment_id AND user_id = user AND status = 'pending'
select_pending(u, pid) ==
    /\ pid \in DOMAIN wallet_pending_payments
    /\ wallet_pending_payments[pid].user_id = u
    /\ wallet_pending_payments[pid].status = "pending"

\* The expiry test with its comparison turned round.
is_expired_reversed(payment, t) == t < payment.expires_at

\* confirm_payment's expiry test: datetime.now(utc) > expires_at
is_expired(payment, t) == t > payment.expires_at

\* UPDATE wallet_pending_payments SET status = s WHERE id = payment_id
update_status(pid, s) ==
    [wallet_pending_payments EXCEPT ![pid].status = s]

\* int(amount * 10 ** USDC_DECIMALS): a token amount in raw units.
to_units(amount) == amount * 10 ^ USDC_DECIMALS

\* The ABI-encoded call of one contract function, as its name and
\* arguments: transfer(to, amount), approve(spender, amount),
\* deposit(order, seller, amount), or the bytes a caller passed.
encoded_call(fn, order, who, amount) ==
    [fn |-> fn, order |-> order, who |-> who, amount |-> amount]

build_transfer_calldata(to, amount) ==
    encoded_call("transfer", "", to_checksum_address(to), to_units(amount))

build_approve_calldata(spender, amount_units) ==
    encoded_call("approve", "", to_checksum_address(spender), amount_units)

build_deposit_calldata(order_id_bytes32, seller, amount_units) ==
    encoded_call("deposit", order_id_bytes32, to_checksum_address(seller),
                 amount_units)

\* SimpleAccount.execute(dest, value, func)
build_execute_calldata(to, value, data) ==
    [fn |-> "execute",
     batch |-> <<[to |-> to_checksum_address(to), value |-> value,
                  data |-> data]>>]

\* A batch that keeps its first call only.
build_execute_batch_first_only(batch) ==
    [fn |-> "executeBatch",
     batch |-> <<[to |-> to_checksum_address(batch[1].to),
                  value |-> batch[1].value, data |-> batch[1].data]>>]

\* SimpleAccount.executeBatch(dests, values, funcs), in the order given.
build_execute_batch_calldata(batch) ==
    [fn |-> "executeBatch",
     batch |-> [k \in DOMAIN batch |->
                   [to |-> to_checksum_address(batch[k].to),
                    value |-> batch[k].value, data |-> batch[k].data]]]

\* The call data of _execute_payment and withdraw.
transfer_call_data(to, amount) ==
    build_execute_calldata(UsdcContract, 0, build_transfer_calldata(to, amount))

(* -------------------- the operation and its hash ----------------------- *)
\* Python's None, for a field of the operation or of a response that is
\* null or absent.
None == "None"

ENTRYPOINT_ADDRESS == "0xENTRYPOINT"
SIMPLE_ACCOUNT_FACTORY == "0xFACTORY"
CHAIN_ID == 84532
ZeroAddress == "0x0000"

\* hex(n) and int(h, 16) on the quantities of the model.
HexDigits == <<"0x0", "0x1", "0x2", "0x3", "0x4", "0x5", "0x6", "0x7", "0x8", "0x9", "0xa", "0xb", "0xc", "0xd", "0xe", "0xf">>

hex(n) == HexDigits[n + 1]

\* Hex strings of 2^8, of 2^128 - 1 and of 2^128.
Hex256 == "0x100"
HexMaxUint128 == "0xffffffffffffffffffffffffffffffff"
HexTwoTo128 == "0x100000000000000000000000000000000"

\* int(h, 16): a Python integer, of any size, as its digits in base 256,
\* the most significant first and without leading zeros (zero is <<>>).
hex_to_int(h) ==
    IF h = "0x0" THEN <<>>
    ELSE IF h = Hex256 THEN <<1, 0>>
    ELSE IF h = HexMaxUint128 THEN [k \in 1..16 |-> 255]
    ELSE IF h = HexTwoTo128 THEN <<1>> \o [k \in 1..16 |-> 0]
    ELSE <<CHOOSE n \in 1..(Len(HexDigits) - 1) : HexDigits[n + 1] = h>>

\* bytes.fromhex of a hex string, as a sequence of chunks; nothing for
\* None, "" and "0x".
hex_to_bytes(h) == IF h \in {None, "", "0x"} THEN <<>> ELSE <<h>>

\* The bytes of the call data: the builders never return an empty string.
call_data_bytes(call_data) == <<call_data>>

\* A value that Python takes as true in `if value`.
truthy(v) == v \notin {None, ""}

\* n.to_bytes(16, "big") raises OverflowError unless n < 2^128.
fits_bytes16(n) == Len(n) <= 16

\* The bytes of n without the padding.
to_bytes16_unpadded(n) == n

\* n.to_bytes(16, "big"): the digits of n behind zero bytes, 16 in all.
to_bytes16(n) == [k \in 1..(16 - Len(n)) |-> 0] \o n

\* Web3.keccak and eth_abi.encode, uninterpreted: equal results come from
\* equal arguments only.
keccak(data) == <<"keccak256", data>>

encode(types, values) == <<"abi", types, values>>

\* The value of an operation hash that was not computed, and the
\* signature build_user_operation puts in for the gas estimate.
NoOpHash == <<"none", <<"abi", <<>>, <<>>>>>>
DummySignature == <<"dummy", "", NoOpHash>>

\* The Privy wallet of an account, registered with it.
privy_wallet_id(u) == IF u = "u1" THEN "privy1" ELSE "privy2"

\* privy.client.sign_message: the signature, by the key of the wallet, of
\* the EIP-191 wrapping of the message.
sign_message(wallet_id, message) ==
    <<"secp256k1_sign", wallet_id,
      keccak(<<"\\x19Ethereum Signed Message:\\n32", message>>)>>

\* factory.createAccount(owner, 0) as call data.
create_account_data(owner) == IF owner = "0xEOA1" THEN "0xCREATE1" ELSE "0xCREATE2"

\* build_user_operation: the unsigned operation, its gas and fee fields
\* at zero and its paymaster fields empty.
build_user_operation(sender, call_data, is_deployed, owner, nonce) ==
    [sender |-> to_checksum_address(sender),
     nonce |-> hex(nonce),
     factory |-> IF is_deployed THEN None ELSE SIMPLE_ACCOUNT_FACTORY,
     factoryData |-> IF is_deployed THEN None ELSE create_account_data(owner),
     callData |-> call_data,
     callGasLimit |-> "0x0",
     verificationGasLimit |-> "0x0",
     preVerificationGas |-> "0x0",
     maxFeePerGas |-> "0x0",
     maxPriorityFeePerGas |-> "0x0",
     signature |-> DummySignature,
     paymaster |-> None,
     paymasterData |-> None,
     paymasterVerificationGasLimit |-> None,
     paymasterPostOpGasLimit |-> None]

\* initCode = factory + factoryData, or empty.
init_code(op) ==
    IF truthy(op.factory) /\ op.factory # ZeroAddress
    THEN hex_to_bytes(op.factory) \o hex_to_bytes(op.factoryData)
    ELSE <<>>

\* paymasterAndData = paymaster + verification gas limit + post-op gas
\* limit + paymasterData, or empty.
paymaster_and_data(op) ==
    IF truthy(op.paymaster)
    THEN hex_to_bytes(op.paymaster)
           \o to_bytes16(hex_to_int(op.paymasterVerificationGasLimit))
           \o to_bytes16(hex_to_int(op.paymasterPostOpGasLimit))
           \o hex_to_bytes(op.paymasterData)
    ELSE <<>>

\* to_bytes raises on a gas or fee field of 2^128 or more; int(None, 16)
\* raises on a paymaster without one of its gas limits.
hash_raises(op) ==
    \/ \E f \in {"verificationGasLimit", "callGasLimit",
                  "maxPriorityFeePerGas", "maxFeePerGas"} :
           ~fits_bytes16(hex_to_int(op[f]))
    \/ /\ truthy(op.paymaster)
       /\ \E f \in {"paymasterVerificationGasLimit", "paymasterPostOpGasLimit"} :
              IF op[f] = None THEN TRUE ELSE ~fits_bytes16(hex_to_int(op[f]))

PackedTypes == <<"address", "uint256", "bytes32", "bytes32", "bytes32", "uint256", "bytes32", "bytes32">>

\* The hash without its second round.
compute_user_op_hash_inner_only(op, entrypoint, chain_id) ==
    keccak(encode(PackedTypes,
                  <<op.sender, hex_to_int(op.nonce),
                    keccak(init_code(op)),
                    keccak(call_data_bytes(op.callData)),
                    to_bytes16(hex_to_int(op.verificationGasLimit))
                        \o to_bytes16(hex_to_int(op.callGasLimit)),
                    hex_to_int(op.preVerificationGas),
                    to_bytes16(hex_to_int(op.maxPriorityFeePerGas))
                        \o to_bytes16(hex_to_int(op.maxFeePerGas)),
                    keccak(paymaster_and_data(op))>>))

compute_user_op_hash(op, entrypoint, chain_id) ==
    LET account_gas_limits ==
            to_bytes16(hex_to_int(op.verificationGasLimit))
                \o to_bytes16(hex_to_int(op.callGasLimit))
        gas_fees ==
            to_bytes16(hex_to_int(op.maxPriorityFeePerGas))
                \o to_bytes16(hex_to_int(op.maxFeePerGas))
        packed ==
            encode(PackedTypes,
                   <<op.sender, hex_to_int(op.nonce),
                     keccak(init_code(op)),
                     keccak(call_data_bytes(op.callData)),
                     account_gas_limits,
                     hex_to_int(op.preVerificationGas),
                     gas_fees,
                     keccak(paymaster_and_data(op))>>)
        inner_hash == keccak(packed)
    IN keccak(encode(<<"bytes32", "address", "uint256">>,
                     <<inner_hash, entrypoint, chain_id>>))

\* The operation of a call before it is written out field by field.
NoOp == [sender |-> None]

\* _submit_user_op up to its first await: read the account row and build
\* the operation with a nonce freshly read from the EntryPoint.  The
\* operation is a function of what the record holds (user, call_data,
\* is_deployed, nonce); `op` holds it field by field from the first
\* sponsorship request on.  rpc_log is the history of the remote calls
\* the coroutine made, kept by the steps that follow the pipeline call by
\* call; elapsed is the local of wait_for_receipt.
new_call(kind, u, pid, to, amount, memo, call_data) ==
    [pc |-> "sponsor", kind |-> kind, user |-> u, payment_id |-> pid,
     to_address |-> to, amount |-> amount, memo |-> memo,
     call_data |-> call_data,
     nonce |-> get_nonce(u),
     is_deployed |-> wallet_users[u].smart_account_deployed,
     op |-> NoOp, op_hash |-> NoOpHash, rpc_log |-> <<>>,
     elapsed |-> 0,
     user_op_hash |-> user_op_hash_of(0), result |-> "running"]

(* ------------------------------- pay() --------------------------------- *)
pay(u, to, amount, memo) ==
    \/ /\ pay_outcome(u, amount)
             \in {"per_tx_limit", "daily_limit", "insufficient_balance"}
       /\ last' = Response("pay", NoPayment, pay_outcome(u, amount))
       /\ UNCHANGED <<store, last_scanned_block, calls, user_ops, chain, now>>
    \/ /\ pay_outcome(u, amount) = "pending_confirmation"
       /\ Len(wallet_pending_payments) < MaxPayments
       /\ wallet_pending_payments' = Append(wallet_pending_payments,
              [user_id |-> u, to_address |-> to, amount |-> amount,
               memo |-> memo, expires_at |-> pending_expires_at(now),
               status |-> "pending"])
       /\ wallet_events' = Append(wallet_events,
              [user_id |-> u, type |-> "payment_requires_confirmation",
               ref |-> Len(wallet_pending_payments) + 1])
       /\ last' = Response("pay", Len(wallet_pending_payments) + 1,
                           "pending_confirmation")
       /\ UNCHANGED <<wallet_users, wallet_transactions, last_scanned_block,
                      calls, user_ops, chain, now>>
    \/ /\ pay_outcome(u, amount) = "settle"
       /\ Len(calls) < MaxCalls
       /\ calls' = Append(calls, new_call("pay", u, NoPayment, to, amount, memo,
                                          transfer_call_data(to, amount)))
       /\ UNCHANGED <<store, last_scanned_block, user_ops, chain, now, last>>

\* A request model without the bound on amount.
PayRequest_unbounded(amount) == TRUE

\* PayRequest: amount is Field(gt=0).
PayRequest_valid(amount) == amount > 0

\* POST /pay: a body that fails validation is answered before the handler
\* runs; otherwise pay() is called with float(req.amount).
pay_endpoint(u, to, amount, memo) ==
    \/ /\ ~PayRequest_valid(amount)
       /\ last' = Response("pay", NoPayment, "validation_error")
       /\ UNCHANGED <<store, last_scanned_block, calls, user_ops, chain, now>>
    \/ /\ PayRequest_valid(amount)
       /\ pay(u, to, amount, memo)

(* --------------------------- update_settings() ------------------------- *)
\* The fields of the request that are set replace those of the row.
apply_settings(row, req) ==
    [row EXCEPT
       !.per_transaction_limit =
           IF req.per_transaction_limit # Unset
           THEN req.per_transaction_limit ELSE @,
       !.daily_limit = IF req.daily_limit # Unset THEN req.daily_limit ELSE @,
       !.require_confirmation_above =
           IF req.require_confirmation_above # Unset
           THEN req.require_confirmation_above ELSE @]

has_updates(req) ==
    \/ req.per_transaction_limit # Unset
    \/ req.daily_limit # Unset
    \/ req.require_confirmation_above # Unset

update_settings(u, req) ==
    \/ /\ ~has_updates(req)
       /\ last' = Response("settings", NoPayment, "no_settings")
       /\ UNCHANGED <<store, last_scanned_block, calls, user_ops, chain, now>>
    \/ /\ has_updates(req)
       /\ wallet_users' = [wallet_users EXCEPT ![u] = apply_settings(@, req)]
       /\ last' = Response("settings", NoPayment, "updated")
       /\ UNCHANGED <<wallet_pending_payments, wallet_transactions,
                      wallet_events, last_scanned_block, calls, user_ops,
                      chain, now>>

(* --------------------------- confirm_payment() ------------------------- *)
confirm_payment(u, pid) ==
    \/ /\ ~select_pending(u, pid)
       /\ last' = Response("confirm", pid, "not_found")
       /\ UNCHANGED <<store, last_scanned_block, calls, user_ops, chain, now>>
    \/ /\ select_pending(u, pid)
       /\ is_expired(wallet_pending_payments[pid], now)
       /\ wallet_pending_payments' = update_status(pid, "expired")
       /\ last' = Response("confirm", pid, "expired")
       /\ UNCHANGED <<wallet_users, wallet_transactions, wallet_events,
                      last_scanned_block, calls, user_ops, chain, now>>
    \/ /\ select_pending(u, pid)
       /\ ~is_expired(wallet_pending_payments[pid], now)
       /\ Len(calls) < MaxCalls
       /\ LET p == wallet_pending_payments[pid]
          IN calls' = Append(calls,
                 new_call("confirm", u, pid, p.to_address, p.amount, p.memo,
                          transfer_call_data(p.to_address, p.amount)))
       /\ UNCHANGED <<store, last_scanned_block, user_ops, chain, now, last>>

(* --------------------------- cancel_payment() -------------------------- *)
cancel_payment(u, pid) ==
    \/ /\ ~select_pending(u, pid)
       /\ last' = Response("cancel", pid, "not_found")
       /\ UNCHANGED <<store, last_scanned_block, calls, user_ops, chain, now>>
    \/ /\ select_pending(u, pid)
       /\ wallet_pending_payments' = update_status(pid, "cancelled")
       /\ wallet_events' = Append(wallet_events,
              [user_id |-> u, type |-> "payment_cancelled", ref |-> pid])
       /\ last' = Response("cancel", pid, "cancelled")
       /\ UNCHANGED <<wallet_users, wallet_transactions, last_scanned_block,
                      calls, user_ops, chain, now>>


(* ------------------ settlement pipeline (_submit_user_op) --------------- *)
Running(i, pc) == i \in DOMAIN calls /\ calls[i].pc = pc

Goto(i, pc) == [calls EXCEPT ![i].pc = pc]

\* The coroutine ends: with "completed" it returned, otherwise it raised.
\* Its operation is discarded; what the caller asked stays on record.
Finish(i, result) ==
    [calls EXCEPT ![i].pc = "done", ![i].result = result, ![i].nonce = 0,
                  ![i].is_deployed = FALSE,
                  ![i].op = NoOp, ![i].op_hash = NoOpHash,
                  ![i].elapsed = 0]

\* The responses of the paymaster, the relay and the node: a field that a
\* response leaves out is None.
PaymasterKeys == {"paymaster", "paymasterData", "paymasterVerificationGasLimit", "paymasterPostOpGasLimit"}

GasKeys == {"preVerificationGas", "callGasLimit", "verificationGasLimit", "paymasterVerificationGasLimit", "paymasterPostOpGasLimit"}

StubResponses ==
    {[paymaster |-> "0xPAYMASTER", paymasterData |-> "0xSTUB",
      paymasterVerificationGasLimit |-> "0x3",
      paymasterPostOpGasLimit |-> "0x1"],
     [paymaster |-> "0xPAYMASTER", paymasterData |-> "0xSTUB",
      paymasterVerificationGasLimit |-> None,
      paymasterPostOpGasLimit |-> None]}

GasEstimates ==
    {[preVerificationGas |-> "0x5", callGasLimit |-> "0x7",
      verificationGasLimit |-> "0x9",
      paymasterVerificationGasLimit |-> "0x4",
      paymasterPostOpGasLimit |-> None],
     [preVerificationGas |-> "0x6", callGasLimit |-> "0x8",
      verificationGasLimit |-> "0xa",
      paymasterVerificationGasLimit |-> None,
      paymasterPostOpGasLimit |-> None]}

GasPrices == {"0x2", "0xb"}

PaymasterResponses ==
    {[paymaster |-> "0xPAYMASTER", paymasterData |-> "0xSIGNED",
      paymasterVerificationGasLimit |-> None,
      paymasterPostOpGasLimit |-> None],
     [paymaster |-> "0xPAYMASTER", paymasterData |-> "0xSIGNED",
      paymasterVerificationGasLimit |-> "0x4",
      paymasterPostOpGasLimit |-> "0x2"]}

\* {k: v for k, v in user_op.items() if v is not None}; callData and
\* signature are never None.
clean_op(op) ==
    [f \in {g \in DOMAIN op : g \in {"callData", "signature"} \/ op[g] # None}
        |-> op[f]]

\* A merge that takes nothing from the response.
merge_nothing(op, response, keys) == op

\* for key in keys: if key in response and response[key]:
\*     user_op[key] = response[key]
merge(op, response, keys) ==
    [f \in DOMAIN op |->
        IF f \in keys /\ f \in DOMAIN response /\ truthy(response[f])
        THEN response[f] ELSE op[f]]

\* user_op["maxFeePerGas"] = user_op["maxPriorityFeePerGas"] = gas_price
set_fees(op, gas_price) ==
    [op EXCEPT !.maxFeePerGas = gas_price, !.maxPriorityFeePerGas = gas_price]

\* A signing that also clears the fee cap of the operation.
set_signature_and_fee(op, signature) ==
    [op EXCEPT !.signature = signature, !.maxFeePerGas = "0x0"]

\* op["signature"] = signature
set_signature(op, signature) == [op EXCEPT !.signature = signature]

\* One remote call in the history of call i.
Logged(i, method, request, response, ok) ==
    Append(calls[i].rpc_log,
           [method |-> method, request |-> request, response |-> response,
            ok |-> ok])

\* A remote call raised: the exception leaves _submit_user_op.
Raised(i, method, request) ==
    [Finish(i, "protocol_error")
        EXCEPT ![i].rpc_log = Logged(i, method, request, None, FALSE)]

\* The operation as build_user_operation returned it to _submit_user_op.
built_op(c) ==
    build_user_operation(smart_account_address(c.user), c.call_data,
                         c.is_deployed, wallet_address(c.user), c.nonce)

\* sponsor_user_op, step 1: pm_getPaymasterStubData.
request_stub(i) ==
    /\ Running(i, "sponsor")
    /\ LET op == built_op(calls[i])
       IN \/ \E stub \in StubResponses :
                calls' = [calls EXCEPT
                    ![i].pc = "estimate",
                    ![i].op = merge(op, stub, PaymasterKeys),
                    ![i].rpc_log = Logged(i, "pm_getPaymasterStubData",
                                          clean_op(op), stub, TRUE)]
          \/ calls' = Raised(i, "pm_getPaymasterStubData", clean_op(op))
    /\ UNCHANGED <<store, last_scanned_block, user_ops, chain, now, last>>

\* sponsor_user_op, step 2: eth_estimateUserOperationGas with the stub.
estimate_gas(i) ==
    /\ Running(i, "estimate")
    /\ LET op == calls[i].op
       IN \/ \E gas \in GasEstimates :
                calls' = [calls EXCEPT
                    ![i].pc = "gas_price",
                    ![i].op = merge(op, gas, GasKeys),
                    ![i].rpc_log = Logged(i, "eth_estimateUserOperationGas",
                                          clean_op(op), gas, TRUE)]
          \/ calls' = Raised(i, "eth_estimateUserOperationGas", clean_op(op))
    /\ UNCHANGED <<store, last_scanned_block, user_ops, chain, now, last>>

\* _get_gas_price: eth_gasPrice of the node; both fee fields get it.
get_gas_price(i) ==
    /\ Running(i, "gas_price")
    /\ \/ \E gas_price \in GasPrices :
             calls' = [calls EXCEPT
                 ![i].pc = "pm_data",
                 ![i].op = set_fees(calls[i].op, gas_price),
                 ![i].rpc_log = Logged(i, "eth_gasPrice", None, gas_price,
                                       TRUE)]
       \/ calls' = Raised(i, "eth_gasPrice", None)
    /\ UNCHANGED <<store, last_scanned_block, user_ops, chain, now, last>>

\* sponsor_user_op, step 3: pm_getPaymasterData with the final gas values.
request_paymaster_data(i) ==
    /\ Running(i, "pm_data")
    /\ LET op == calls[i].op
       IN \/ \E pm_data \in PaymasterResponses :
                calls' = [calls EXCEPT
                    ![i].pc = "sign",
                    ![i].op = merge(op, pm_data, PaymasterKeys),
                    ![i].rpc_log = Logged(i, "pm_getPaymasterData",
                                          clean_op(op), pm_data, TRUE)]
          \/ calls' = Raised(i, "pm_getPaymasterData", clean_op(op))
    /\ UNCHANGED <<store, last_scanned_block, user_ops, chain, now, last>>

\* compute_user_op_hash of the sponsored operation, and sign_message of
\* the hash with the owner's key; the signature replaces the dummy one.
sign_user_op(i) ==
    /\ Running(i, "sign")
    /\ LET op == calls[i].op
           op_hash == compute_user_op_hash(op, ENTRYPOINT_ADDRESS, CHAIN_ID)
           signature == sign_message(privy_wallet_id(calls[i].user), op_hash)
       IN IF hash_raises(op)
          THEN calls' = Finish(i, "protocol_error")
          ELSE \/ calls' = [calls EXCEPT
                      ![i].pc = "send",
                      ![i].op = set_signature(op, signature),
                      ![i].op_hash = op_hash,
                      ![i].rpc_log = Logged(i, "sign_message", op_hash,
                                            signature, TRUE)]
               \/ calls' = Raised(i, "sign_message", op_hash)
    /\ UNCHANGED <<store, last_scanned_block, user_ops, chain, now, last>>

\* BundlerClient.sponsor_user_op (stub data, gas estimate, fee level,
\* paymaster data), compute_user_op_hash and privy.client.sign_message as
\* one step, for the specifications that do not read the fields these
\* calls fill in: they touch the operation alone, and any of the remote
\* calls may raise.
sponsor_and_sign(i) ==
    /\ Running(i, "sponsor")
    /\ \/ calls' = Goto(i, "send")
       \/ calls' = Finish(i, "protocol_error")
    /\ UNCHANGED <<store, last_scanned_block, user_ops, chain, now, last>>

\* build_user_operation: factory and factoryData are set if and only if
\* the caller passed is_deployed = False.
has_init_code(c) == ~c.is_deployed

\* The relay's validation of a submitted operation: the EntryPoint rejects
\* a nonce that was already used, an initialization payload for a sender
\* that has code, and a sender without code that carries none.
relay_accepts(c) ==
    /\ c.nonce >= get_nonce(c.user)
    /\ has_init_code(c) = ~chain.deployed[c.user]

\* BundlerClient.send_user_op: eth_sendUserOperation returns the relay's
\* id of the operation, or the RPC raises and nothing was submitted.
send_user_op(i) ==
    /\ Running(i, "send")
    /\ \/ /\ relay_accepts(calls[i])
          /\ user_ops' = Append(user_ops,
                 [user |-> calls[i].user, nonce |-> calls[i].nonce,
                  call |-> i, init_code |-> has_init_code(calls[i]),
                  call_data |-> calls[i].call_data,
                  op |-> calls[i].op,
                  to |-> calls[i].to_address,
                  value |-> calls[i].amount, state |-> "mempool",
                  tx_hash |-> tx_hash_of(0)])
          /\ calls' = [calls EXCEPT ![i].pc = "wait",
                          ![i].user_op_hash = user_op_hash_of(Len(user_ops) + 1)]
       \/ /\ calls' = Finish(i, "protocol_error")
          /\ UNCHANGED user_ops
    /\ UNCHANGED <<store, last_scanned_block, chain, now, last>>

\* eth_getUserOperationReceipt for the operation of call i.
op_of(i) == user_ops[calls[i].user_op_hash[2]]
has_receipt(i) == op_of(i).state \in {"included", "reverted"}
\* A poll that does not look at the receipt's success field.
receipt_success_ignored(i) == TRUE

receipt_success(i) == op_of(i).state = "included"
\* The result of eth_getUserOperationReceipt for an operation that is in
\* a block; with_hash tells whether its receipt object has transactionHash.
receipt_of(i, with_hash) ==
    [success |-> receipt_success(i),
     receipt |-> IF with_hash THEN [transactionHash |-> op_of(i).tx_hash]
                 ELSE [blockNumber |-> op_of(i).tx_hash[2]]]

\* receipt.get("receipt", {}).get("transactionHash", user_op_hash)
transaction_hash_or(receipt, user_op_hash) ==
    IF "transactionHash" \in DOMAIN receipt.receipt
    THEN receipt.receipt.transactionHash
    ELSE user_op_hash

\* The tx_hash _submit_user_op returns for a receipt of the usual form.
receipt_tx_hash(i) ==
    transaction_hash_or(receipt_of(i, TRUE), calls[i].user_op_hash)

\* The flag written from the value read at the start, negated, whatever
\* that value was.
mark_deployed_unguarded(c) ==
    [wallet_users EXCEPT ![c.user].smart_account_deployed = ~c.is_deployed]

\* _submit_user_op after the receipt: the first settlement of an account
\* read as undeployed flips its flag.
mark_deployed(c) ==
    IF ~c.is_deployed
    THEN [wallet_users EXCEPT ![c.user].smart_account_deployed = TRUE]
    ELSE wallet_users

\* A store whose wallet_transactions.tx_hash is not unique.
tx_hash_unchecked(h) == TRUE

\* The store's uniqueness constraint on wallet_transactions.tx_hash: an
\* insert of a hash that is already there raises.
tx_hash_free(h) == \A r \in Range(wallet_transactions) : r.tx_hash # h

\* The wallet_transactions and wallet_events rows each handler writes
\* after _submit_user_op returned.
transaction_type(kind) ==
    CASE kind \in {"pay", "confirm"} -> "payment"
      [] kind = "withdraw" -> "withdrawal"
      [] kind = "escrow_deposit" -> "escrow_deposit"
      [] kind = "contract_call" -> "contract_call"

event_type(kind) ==
    CASE kind \in {"pay", "confirm"} -> "payment_sent"
      [] kind = "withdraw" -> "withdrawal_sent"
      [] kind = "escrow_deposit" -> "escrow_deposit"
      [] kind = "contract_call" -> "contract_call"

transaction_row(c, h) ==
    [user_id |-> c.user, type |-> transaction_type(c.kind),
     amount |-> c.amount, to_address |-> c.to_address, memo |-> c.memo,
     tx_hash |-> h, user_op_hash |-> c.user_op_hash]

event_row(c, h) ==
    [user_id |-> c.user, type |-> event_type(c.kind), ref |-> h]

\* confirm_payment's last statement; the other handlers have none.
after_payment(c) ==
    IF c.kind = "confirm" THEN update_status(c.payment_id, "confirmed")
    ELSE wallet_pending_payments

\* What follows wait_for_receipt without an await, the receipt returned:
\* the flag of the account, then the rows of the handler.
record_settlement(i, tx_hash) ==
    /\ wallet_users' = mark_deployed(calls[i])
    /\ IF tx_hash_free(tx_hash)
       THEN /\ wallet_transactions' = Append(wallet_transactions,
                   transaction_row(calls[i], tx_hash))
            /\ wallet_events' = Append(wallet_events,
                   event_row(calls[i], tx_hash))
            /\ wallet_pending_payments' = after_payment(calls[i])
            /\ calls' = Finish(i, "completed")
       ELSE /\ calls' = Finish(i, "store_error")
            /\ UNCHANGED <<wallet_transactions, wallet_events,
                           wallet_pending_payments>>

\* BundlerClient.wait_for_receipt as one step, and what follows it.  The
\* polls that see no receipt change nothing; `elapsed` reaching the
\* timeout is the third branch.
wait_for_receipt(i) ==
    /\ Running(i, "wait")
    /\ \/ /\ has_receipt(i) /\ receipt_success(i)
          /\ record_settlement(i, receipt_tx_hash(i))
       \/ /\ has_receipt(i) /\ ~receipt_success(i)
          /\ calls' = Finish(i, "userop_failed")
          /\ UNCHANGED store
       \/ /\ ~has_receipt(i)
          /\ calls' = Finish(i, "timeout")
          /\ UNCHANGED store
    /\ UNCHANGED <<last_scanned_block, user_ops, chain, now, last>>

\* The defaults of wait_for_receipt, seconds.
RECEIPT_TIMEOUT == 60
RECEIPT_INTERVAL == 2

\* One turn of the loop of wait_for_receipt, or its end at the timeout.
\* The HTTP exchange may raise (resp.raise_for_status, a transport error):
\* that is no RuntimeError and leaves the loop; an error response of the
\* relay is a RuntimeError, which the loop swallows.
poll_receipt(i) ==
    /\ Running(i, "wait")
    /\ \/ /\ calls[i].elapsed >= RECEIPT_TIMEOUT
          /\ calls' = Finish(i, "timeout")
          /\ UNCHANGED store
       \/ /\ calls[i].elapsed < RECEIPT_TIMEOUT
          /\ \/ /\ calls' = Finish(i, "protocol_error")
                /\ UNCHANGED store
             \/ /\ calls' = [calls EXCEPT ![i].elapsed = @ + RECEIPT_INTERVAL]
                /\ UNCHANGED store
             \/ /\ ~has_receipt(i)
                /\ calls' = [calls EXCEPT ![i].elapsed = @ + RECEIPT_INTERVAL]
                /\ UNCHANGED store
             \/ /\ has_receipt(i) /\ ~receipt_success(i)
                /\ calls' = Finish(i, "userop_failed")
                /\ UNCHANGED store
             \/ /\ has_receipt(i) /\ receipt_success(i)
                /\ \E with_hash \in BOOLEAN :
                       record_settlement(i,
                           transaction_hash_or(receipt_of(i, with_hash),
                                               calls[i].user_op_hash))
    /\ UNCHANGED <<last_scanned_block, user_ops, chain, now, last>>

(* ------------------------ relay, chain and clock ----------------------- *)
transfer_log(from, to, value, block) ==
    [tx_hash |-> tx_hash_of(block), from |-> from, to |-> to,
     value |-> value, block_number |-> block]

\* The relay bundles operation k into the next block.  An operation whose
\* nonce is no longer the account's current one is dropped; a transfer of
\* more than the balance reverts, and so may any execution.  Validation
\* runs the initialization payload, so the sender has code either way.
include_user_op(k) ==
    /\ k \in DOMAIN user_ops
    /\ user_ops[k].state = "mempool"
    /\ LET o == user_ops[k]
           sa == smart_account_address(o.user)
           block == chain.height + 1
       IN IF o.nonce # chain.nonce[o.user]
          THEN /\ user_ops' = [user_ops EXCEPT ![k].state = "dropped"]
               /\ UNCHANGED chain
          ELSE /\ chain.height < MaxHeight
               /\ \/ /\ get_balance(sa) >= o.value
                     /\ user_ops' = [user_ops EXCEPT ![k].state = "included",
                                         ![k].tx_hash = tx_hash_of(block)]
                     /\ chain' = [height |-> block,
                                  nonce |-> [chain.nonce EXCEPT ![o.user] = @ + 1],
                                  deployed |-> [chain.deployed
                                                  EXCEPT ![o.user] = TRUE],
                                  logs |-> IF o.value = 0 THEN chain.logs
                                           ELSE Append(chain.logs,
                                      transfer_log(sa, to_checksum_address(o.to),
                                                   o.value, block))]
                  \/ /\ user_ops' = [user_ops EXCEPT ![k].state = "reverted",
                                         ![k].tx_hash = tx_hash_of(block)]
                     /\ chain' = [chain EXCEPT !.height = block,
                                      !.nonce[o.user] = @ + 1,
                                      !.deployed[o.user] = TRUE]
    /\ UNCHANGED <<store, last_scanned_block, calls, now, last>>

\* A third party transfers tokens on the chain.
external_transfer(to) ==
    /\ chain.height < MaxHeight
    /\ chain' = [chain EXCEPT !.height = @ + 1,
                     !.logs = Append(@, transfer_log("0xFUNDER", to,
                                         ExternalValue, chain.height + 1))]
    /\ UNCHANGED <<store, last_scanned_block, calls, user_ops, now, last>>

\* The clock moves to the expiry of a payment made at 0, or just past it.
TickSteps == {PENDING_PAYMENT_TTL_MINUTES, PENDING_PAYMENT_TTL_MINUTES + 1}

tick(d) ==
    /\ now + d <= MaxTime
    /\ now' = now + d
    /\ UNCHANGED <<store, last_scanned_block, calls, user_ops, chain, last>>


(* ----------------- withdraw / escrow_deposit / contract_call ----------- *)
\* withdraw() with the confirmation threshold of pay().
withdraw_outcome_with_threshold(u, amount) == pay_outcome(u, amount)

\* The checks of withdraw(): limits and balance, no confirmation threshold.
withdraw_outcome(u, amount) ==
    IF check_limits(u, amount) # "ok" THEN check_limits(u, amount)
    ELSE IF get_balance(smart_account_address(u)) < amount
         THEN "insufficient_balance"
    ELSE "settle"

withdraw(u, to, amount, memo) ==
    \/ /\ withdraw_outcome(u, amount) # "settle"
       /\ last' = Response("withdraw", NoPayment, withdraw_outcome(u, amount))
       /\ UNCHANGED <<store, last_scanned_block, calls, user_ops, chain, now>>
    \/ /\ withdraw_outcome(u, amount) = "settle"
       /\ Len(calls) < MaxCalls
       /\ calls' = Append(calls,
              new_call("withdraw", u, NoPayment, to, amount, memo,
                       transfer_call_data(to, amount)))
       /\ UNCHANGED <<store, last_scanned_block, user_ops, chain, now, last>>

\* escrow_deposit(): the balance check, then one operation whose call data
\* is executeBatch(approve, deposit).
escrow_deposit(u, escrow_contract, usdc_contract, order_id_bytes32, seller, amount) ==
    \/ /\ get_balance(smart_account_address(u)) < amount
       /\ last' = Response("escrow_deposit", NoPayment, "insufficient_balance")
       /\ UNCHANGED <<store, last_scanned_block, calls, user_ops, chain, now>>
    \/ /\ get_balance(smart_account_address(u)) >= amount
       /\ Len(calls) < MaxCalls
       /\ calls' = Append(calls,
              new_call("escrow_deposit", u, NoPayment, escrow_contract,
                       amount, "order",
                       build_execute_batch_calldata(
                         <<[to |-> usdc_contract, value |-> 0,
                            data |-> build_approve_calldata(escrow_contract,
                                         to_units(amount))],
                           [to |-> escrow_contract, value |-> 0,
                            data |-> build_deposit_calldata(order_id_bytes32,
                                         seller, to_units(amount))]>>)))
       /\ UNCHANGED <<store, last_scanned_block, user_ops, chain, now, last>>

\* contract_call(): no check; the row's amount is 0.
contract_call(u, contract_address, calldata) ==
    /\ Len(calls) < MaxCalls
    /\ calls' = Append(calls,
           new_call("contract_call", u, NoPayment, contract_address, 0,
                    "contract_call",
                    build_execute_calldata(contract_address, 0, calldata)))
    /\ UNCHANGED <<store, last_scanned_block, user_ops, chain, now, last>>

(* ---------------------------- DepositScanner --------------------------- *)
\* _get_user_addresses: lower-cased owner and smart-account address -> id.
user_map_has(a) ==
    \E u \in Users :
        a \in {Lower(wallet_address(u)), Lower(smart_account_address(u))}

user_map_get(a) ==
    CHOOSE u \in Users :
        a \in {Lower(wallet_address(u)), Lower(smart_account_address(u))}

Min(a, b) == IF a <= b THEN a ELSE b

\* A window that starts at the cursor itself.
scan_from_cursor(cursor) == cursor

scan_from(cursor) == cursor + 1

\* A window without its cap.
scan_to_latest(cursor, latest) == latest

scan_to(cursor, latest) == Min(latest, scan_from(cursor) + SCAN_WINDOW)

\* chain.usdc.get_transfer_events(from_block, to_block)
get_transfer_events(from, to) ==
    LET inside(l) == from <= l.block_number /\ l.block_number <= to
    IN SelectSeq(chain.logs, inside)

\* SELECT id FROM wallet_transactions WHERE tx_hash = h, on the rows `txs`.
existing(h, txs) == \E r \in Range(txs) : r.tx_hash = h

\* The loop skips an event to an unknown address or of a recorded hash.
scan_skips(evt, txs) ==
    \/ ~user_map_has(Lower(evt.to))
    \/ existing(evt.tx_hash, txs)

deposit_row(evt) ==
    [user_id |-> user_map_get(Lower(evt.to)), type |-> "deposit",
     amount |-> evt.value, to_address |-> evt.to, memo |-> "none",
     tx_hash |-> evt.tx_hash, user_op_hash |-> user_op_hash_of(0)]

deposit_event(evt) ==
    [user_id |-> user_map_get(Lower(evt.to)), type |-> "deposit_received",
     ref |-> evt.tx_hash]

\* The for loop of scan_deposits over `events`, from the tables `db`.
RECURSIVE ingest(_, _)
ingest(events, db) ==
    IF events = <<>> THEN db
    ELSE LET evt == Head(events)
         IN ingest(Tail(events),
                IF scan_skips(evt, db.txs) THEN db
                ELSE [txs |-> Append(db.txs, deposit_row(evt)),
                      evs |-> Append(db.evs, deposit_event(evt))])

\* The loop reaches its end: none of its inserts raises.
RECURSIVE ingest_completes(_, _)
ingest_completes(events, db) ==
    IF events = <<>> THEN TRUE
    ELSE LET evt == Head(events)
         IN IF scan_skips(evt, db.txs)
            THEN ingest_completes(Tail(events), db)
            ELSE /\ \A r \in Range(db.txs) : r.tx_hash # evt.tx_hash
                 /\ ingest_completes(Tail(events),
                        [txs |-> Append(db.txs, deposit_row(evt)),
                         evs |-> Append(db.evs, deposit_event(evt))])

\* The loop raising at event k + 1: the first k events are done; with
\* `half`, the Transaction row of event k + 1 was written and the insert of
\* its wallet_events row raised.
ingest_until_error(events, db, k, half) ==
    LET done == ingest(SubSeq(events, 1, k), db)
        evt == events[k + 1]
    IN IF half /\ ~scan_skips(evt, done.txs)
       THEN [txs |-> Append(done.txs, deposit_row(evt)), evs |-> done.evs]
       ELSE done

\* The tables as the loop of scan_deposits sees them, and its window.
scan_db == [txs |-> wallet_transactions, evs |-> wallet_events]

scan_events ==
    get_transfer_events(scan_from(last_scanned_block),
                        scan_to(last_scanned_block, chain.height))

\* get_latest_block raised, or there is no new block.
scan_idle == UNCHANGED vars

\* First run: anchor at the current height, nothing is queried.
scan_anchor ==
    /\ last_scanned_block = NoBlock
    /\ last_scanned_block' = chain.height
    /\ UNCHANGED <<store, calls, user_ops, chain, now, last>>

\* A window scanned to its end: the cursor moves to the end of the window.
scan_window ==
    /\ last_scanned_block # NoBlock
    /\ chain.height > last_scanned_block
    /\ ingest_completes(scan_events, scan_db)
    /\ wallet_transactions' = ingest(scan_events, scan_db).txs
    /\ wallet_events' = ingest(scan_events, scan_db).evs
    /\ last_scanned_block' = scan_to(last_scanned_block, chain.height)
    /\ UNCHANGED <<wallet_users, wallet_pending_payments, calls, user_ops,
                   chain, now, last>>

\* A tick that moves the cursor although it raised.
scan_raises_and_advances ==
    /\ last_scanned_block # NoBlock
    /\ chain.height > last_scanned_block
    /\ \E k \in 0..(Len(scan_events) - 1), half \in BOOLEAN :
         /\ wallet_transactions'
                = ingest_until_error(scan_events, scan_db, k, half).txs
         /\ wallet_events'
                = ingest_until_error(scan_events, scan_db, k, half).evs
    /\ last_scanned_block' = scan_to(last_scanned_block, chain.height)
    /\ UNCHANGED <<wallet_users, wallet_pending_payments, calls, user_ops,
                   chain, now, last>>

\* An exception inside the window: it is logged and the cursor stays.
scan_raises ==
    /\ last_scanned_block # NoBlock
    /\ chain.height > last_scanned_block
    /\ \E k \in 0..(Len(scan_events) - 1), half \in BOOLEAN :
         /\ wallet_transactions'
                = ingest_until_error(scan_events, scan_db, k, half).txs
         /\ wallet_events'
                = ingest_until_error(scan_events, scan_db, k, half).evs
    /\ UNCHANGED <<wallet_users, wallet_pending_payments,
                   last_scanned_block, calls, user_ops, chain, now, last>>

\* One tick of scanner_loop.
scan_deposits ==
    \/ scan_idle
    \/ scan_anchor
    \/ scan_window
    \/ scan_raises

\* Blocks without a token transfer: a quiet period of more than a window.
mine_blocks(n) ==
    /\ chain.height + n <= MaxHeight + MaxQuiet * (SCAN_WINDOW + 2)
    /\ chain' = [chain EXCEPT !.height = @ + n]
    /\ UNCHANGED <<store, last_scanned_block, calls, user_ops, now, last>>

(* ------------------------- PendingPaymentReaper ------------------------ *)
\* UPDATE ... SET status = 'expired' WHERE status = 'pending'
\*  AND expires_at < now
\* The filter with lte in place of lt.
reaper_selects_lte(p, t) == p.status = "pending" /\ p.expires_at <= t

reaper_selects(p, t) == p.status = "pending" /\ p.expires_at < t

\* One iteration of the cleanup loop: the update, or an exception that is
\* logged; the loop goes on either way.
expired_payment_cleanup ==
    \/ /\ wallet_pending_payments' =
              [pid \in DOMAIN wallet_pending_payments |->
                  IF reaper_selects(wallet_pending_payments[pid], now)
                  THEN [wallet_pending_payments[pid] EXCEPT !.status = "expired"]
                  ELSE wallet_pending_payments[pid]]
       /\ UNCHANGED <<wallet_users, wallet_transactions, wallet_events,
                      last_scanned_block, calls, user_ops, chain, now, last>>
    \/ UNCHANGED vars

(* ------------------------------- Next ---------------------------------- *)
\* The requests of the confirmation workflow.
Workflow ==
    \/ \E u \in Payers, to \in PayDests, amount \in Amounts, memo \in Memos :
           pay(u, to, amount, memo)
    \/ \E u \in Users, pid \in 1..MaxPayments : confirm_payment(u, pid)
    \/ \E u \in Users, pid \in 1..MaxPayments : cancel_payment(u, pid)

\* The requests that always settle at once.
Direct ==
    \/ \E u \in Payers, to \in WithdrawDests, amount \in WithdrawAmounts,
          memo \in Memos :
           withdraw(u, to, amount, memo)
    \/ \E u \in Payers, amount \in EscrowAmounts :
           escrow_deposit(u, EscrowContract, UsdcContract, OrderId, Seller,
                          amount)
    \/ \E u \in Payers :
           contract_call(u, OtherContract, encoded_call("mint", "", "", 0))

\* The steps of the settlements in flight, and the relay including them.
Settlement ==
    \/ \E i \in 1..MaxCalls : sponsor_and_sign(i)
    \/ \E i \in 1..MaxCalls : send_user_op(i)
    \/ \E i \in 1..MaxCalls : wait_for_receipt(i)
    \/ \E k \in 1..MaxCalls : include_user_op(k)

Next ==
    \/ Workflow
    \/ \E u \in Payers, to \in PayDests, amount \in RequestAmounts,
          memo \in Memos :
           pay_endpoint(u, to, amount, memo)
    \/ \E u \in Payers, req \in SettingsRequests : update_settings(u, req)
    \/ Direct
    \/ Settlement
    \/ \E to \in ExternalDests : external_transfer(to)
    \/ \E d \in TickSteps : tick(d)
    \/ mine_blocks(SCAN_WINDOW + 2)
    \/ scan_deposits
    \/ expired_payment_cleanup

Spec == Init /\ [][Next]_vars

\* The confirmation workflow with the reaper and the clock; the scanner
\* is idle and nothing else settles.
PaymentsNext ==
    \/ Workflow
    \/ Settlement
    \/ \E d \in TickSteps : tick(d)
    \/ expired_payment_cleanup

SpecPayments == Init /\ [][PaymentsNext]_vars

\* pay() and confirm() by the payer against the scanner; the clock makes
\* the one step that takes a pending payment past its expiry.
LedgerNext ==
    \/ \E u \in Payers, to \in PayDests, amount \in Amounts, memo \in Memos :
           pay(u, to, amount, memo)
    \/ \E u \in Payers, pid \in 1..MaxPayments : confirm_payment(u, pid)
    \/ Settlement
    \/ external_transfer(smart_account_address("u1"))
    \/ tick(PENDING_PAYMENT_TTL_MINUTES + 1)
    \/ scan_deposits

SpecLedger == Init /\ [][LedgerNext]_vars

\* Every kind of settlement against the scanner, at one instant of the
\* clock.
MixNext ==
    \/ \E u \in Payers, to \in PayDests, amount \in Amounts, memo \in Memos :
           pay(u, to, amount, memo)
    \/ Direct
    \/ Settlement
    \/ external_transfer(smart_account_address("u1"))
    \/ scan_deposits

SpecMix == Init /\ [][MixNext]_vars


\* Every kind of settlement and the confirmation workflow, without the
\* scanner; the clock makes the one step that takes a pending payment past
\* its expiry.
SettleNext ==
    \/ Workflow
    \/ Direct
    \/ Settlement
    \/ tick(PENDING_PAYMENT_TTL_MINUTES + 1)

SpecSettle == Init /\ [][SettleNext]_vars

\* pay() behind its endpoint and withdraw() against limits the caller
\* changes.
LimitsNext ==
    \/ \E u \in Payers, to \in PayDests, amount \in RequestAmounts,
          memo \in Memos :
           pay_endpoint(u, to, amount, memo)
    \/ \E u \in Payers, to \in WithdrawDests, amount \in WithdrawAmounts,
          memo \in Memos :
           withdraw(u, to, amount, memo)
    \/ \E u \in Payers, req \in SettingsRequests : update_settings(u, req)
    \/ Settlement

SpecLimits == Init /\ [][LimitsNext]_vars


\* An account whose daily limit was set to 8 by an earlier PATCH /settings
\* and stays there: pay(), confirm() and withdraw() by that account.
InitDaily ==
  \E d \in BOOLEAN :
    /\ wallet_users = [u \in Users |->
           [smart_account_deployed |-> settled_before(d, u),
            per_transaction_limit |-> DEFAULT_PER_TX_LIMIT,
            daily_limit |-> IF u \in Payers THEN 8 ELSE DEFAULT_DAILY_LIMIT,
            require_confirmation_above |-> DEFAULT_CONFIRM_THRESHOLD]]
    /\ wallet_pending_payments = <<>>
    /\ wallet_transactions = <<>>
    /\ wallet_events = <<>>
    /\ last_scanned_block = NoBlock
    /\ calls = <<>>
    /\ user_ops = <<>>
    /\ chain = [height |-> 0,
                nonce |-> [u \in Users |-> IF settled_before(d, u) THEN 1 ELSE 0],
                deployed |-> [u \in Users |-> settled_before(d, u)],
                logs |-> <<>>]
    /\ now = 0
    /\ last = [op |-> "none", payment_id |-> NoPayment, status |-> "none"]

DailyNext ==
    \/ \E u \in Payers, to \in PayDests, amount \in Amounts, memo \in Memos :
           pay(u, to, amount, memo)
    \/ \E u \in Payers, pid \in 1..MaxPayments : confirm_payment(u, pid)
    \/ \E u \in Payers, to \in WithdrawDests, amount \in WithdrawAmounts,
          memo \in Memos :
           withdraw(u, to, amount, memo)
    \/ Settlement
    \/ tick(PENDING_PAYMENT_TTL_MINUTES + 1)

SpecDaily == InitDaily /\ [][DailyNext]_vars

\* The scanner alone against the chain: transfers by third parties and
\* quiet periods longer than a window.  The loop runs for ever and its
\* errors are transient: a tick that can succeed eventually does.
ScannerNext ==
    \/ \E to \in ExternalDests : external_transfer(to)
    \/ mine_blocks(SCAN_WINDOW + 2)
    \/ scan_deposits

SpecScanner ==
    Init /\ [][ScannerNext]_vars /\ WF_vars(scan_anchor) /\ WF_vars(scan_window)

\* compute_user_op_hash on its own: operations of both accounts, first and
\* later ones, with gas, fee and paymaster fields unset or filled in, each
\* at the point where _submit_user_op hashes and signs it.
ZeroGas == [preVerificationGas |-> None, callGasLimit |-> None, verificationGasLimit |-> None]
\* Estimates and fee levels at the edges of 16 bytes: 2^128 - 1 beside
\* 2^8, and 2^128.
WideGas == [preVerificationGas |-> "0x5", callGasLimit |-> Hex256, verificationGasLimit |-> HexMaxUint128]
OverflowGas == [preVerificationGas |-> "0x5", callGasLimit |-> HexTwoTo128, verificationGasLimit |-> "0x9"]
HashGas == GasEstimates \cup {ZeroGas, WideGas, OverflowGas}
HashGasPrices == GasPrices \cup {"0x0", HexMaxUint128, HexTwoTo128}
NoPaymaster == [paymaster |-> None, paymasterData |-> None]

InitHash ==
  \E u \in Users, amount \in {3, 7}, d \in BOOLEAN, n \in 0..1,
     gas \in HashGas, gas_price \in HashGasPrices, priority \in HashGasPrices,
     pm \in PaymasterResponses \cup {NoPaymaster} :
    /\ wallet_users = [v \in Users |->
           [smart_account_deployed |-> (v = u /\ d),
            per_transaction_limit |-> DEFAULT_PER_TX_LIMIT,
            daily_limit |-> DEFAULT_DAILY_LIMIT,
            require_confirmation_above |-> DEFAULT_CONFIRM_THRESHOLD]]
    /\ wallet_pending_payments = <<>>
    /\ wallet_transactions = <<>>
    /\ wallet_events = <<>>
    /\ last_scanned_block = NoBlock
    /\ chain = [height |-> 0,
                nonce |-> [v \in Users |-> IF v = u THEN n ELSE 0],
                deployed |-> [v \in Users |-> (v = u /\ d)],
                logs |-> <<>>]
    /\ calls = <<[new_call("pay", u, NoPayment, "0xsa2", amount, "lunch",
                           transfer_call_data("0xsa2", amount))
                     EXCEPT !.pc = "sign",
                            !.op = [merge(merge(set_fees(
                                       build_user_operation(
                                           smart_account_address(u),
                                           transfer_call_data("0xsa2", amount),
                                           d, wallet_address(u), n),
                                       gas_price), gas, GasKeys),
                                     pm, PaymasterKeys)
                                    EXCEPT !.maxPriorityFeePerGas = priority]]>>
    /\ user_ops = <<>>
    /\ now = 0
    /\ last = [op |-> "none", payment_id |-> NoPayment, status |-> "none"]

HashNext == \E i \in 1..MaxCalls : sign_user_op(i)

SpecHash == InitHash /\ [][HashNext]_vars

\* The pipeline of one settlement, one remote call at a time, up to the
\* submission.
SponsorNext ==
    \/ \E u \in Payers, to \in PayDests, amount \in Amounts, memo \in Memos :
           pay(u, to, amount, memo)
    \/ \E i \in 1..MaxCalls : request_stub(i)
    \/ \E i \in 1..MaxCalls : estimate_gas(i)
    \/ \E i \in 1..MaxCalls : get_gas_price(i)
    \/ \E i \in 1..MaxCalls : request_paymaster_data(i)
    \/ \E i \in 1..MaxCalls : sign_user_op(i)
    \/ \E i \in 1..MaxCalls : send_user_op(i)

SpecSponsor == Init /\ [][SponsorNext]_vars

\* Settlements whose receipts are polled for, turn by turn.
PollNext ==
    \/ \E u \in Payers, to \in PayDests, amount \in Amounts, memo \in Memos :
           pay(u, to, amount, memo)
    \/ \E i \in 1..MaxCalls : sponsor_and_sign(i)
    \/ \E i \in 1..MaxCalls : send_user_op(i)
    \/ \E k \in 1..MaxCalls : include_user_op(k)
    \/ \E i \in 1..MaxCalls : poll_receipt(i)

SpecPoll == Init /\ [][PollNext]_vars

\* The confirmation workflow with the reaper, whose loop runs for ever and
\* whose errors are transient.
SpecReaper == SpecPayments /\ WF_vars(expired_payment_cleanup)


(* ============================== claims ================================== *)
Terminal == {"confirmed", "cancelled", "expired"}

ConfirmCalls(pid) ==
    {i \in DOMAIN calls : calls[i].kind = "confirm" /\ calls[i].payment_id = pid}

\* The operations the relay accepted from confirm() calls of payment pid.
OpsOfPayment(pid) ==
    {k \in DOMAIN user_ops : user_ops[k].call \in ConfirmCalls(pid)}

\* C1: settlement of a PendingPayment is executed at most once: of the
\* confirm() calls of one payment, overlapping or not, at most one gets its
\* operation settled and records a Transaction.
C1_SettledAtMostOnce ==
    \A pid \in DOMAIN wallet_pending_payments :
        Cardinality({i \in ConfirmCalls(pid) : calls[i].result = "completed"}) <= 1

\* C2: a PendingPayment whose status is confirmed, cancelled or expired
\* keeps that status in every later step.
C2_TerminalIsFinal ==
    [][\A pid \in DOMAIN wallet_pending_payments :
          wallet_pending_payments[pid].status \in Terminal
              => wallet_pending_payments'[pid].status
                     = wallet_pending_payments[pid].status]_vars

\* C3: once a confirm() of a payment has timed out waiting for its receipt,
\* no further operation is submitted to the relay for that payment.
C3_NoResubmitAfterTimeout ==
    [][\A pid \in DOMAIN wallet_pending_payments :
          (\E i \in ConfirmCalls(pid) : calls[i].result = "timeout")
              => OpsOfPayment(pid)' \subseteq OpsOfPayment(pid)]_vars

\* C4: a pay() above the confirmation threshold that passes the limit and
\* balance checks adds exactly one PendingPayment, pending and expiring 10
\* minutes from now, and neither records a Transaction nor starts, builds
\* or submits an operation.
C4_LargePayIsParked ==
    [][\A u \in Payers, to \in PayDests, amount \in Amounts, memo \in Memos :
          (/\ amount > DEFAULT_CONFIRM_THRESHOLD
           /\ amount <= DEFAULT_PER_TX_LIMIT
           /\ today_total(u) + amount <= DEFAULT_DAILY_LIMIT
           /\ get_balance(smart_account_address(u)) >= amount
           /\ pay(u, to, amount, memo))
          => /\ wallet_pending_payments' = Append(wallet_pending_payments,
                    [user_id |-> u, to_address |-> to, amount |-> amount,
                     memo |-> memo, expires_at |-> now + 10,
                     status |-> "pending"])
             /\ UNCHANGED <<wallet_transactions, calls, user_ops, chain>>]_vars

C4_Witness ==
    /\ last = Response("pay", 1, "pending_confirmation")
    /\ wallet_pending_payments[1].status = "pending"
    /\ wallet_pending_payments[1].expires_at = now + 10
    /\ wallet_transactions = <<>>
    /\ user_ops = <<>>


\* The poll of call i returns a receipt with success = true in this step.
ReceiptReturned(i) ==
    /\ calls[i].pc = "wait"
    /\ user_ops[calls[i].user_op_hash[2]].state = "included"
    /\ wait_for_receipt(i)

HashCount(h) ==
    Cardinality({j \in DOMAIN wallet_transactions :
                     wallet_transactions[j].tx_hash = h})

\* C5: a confirm() whose settlement succeeds records exactly one
\* Transaction, carrying the destination, amount and memo stored in the
\* PendingPayment, and leaves the payment confirmed; a confirm() of a
\* confirmed payment fails, starting no settlement and recording nothing.
C5_ConfirmRecordsOnce ==
    /\ [][\A i \in DOMAIN calls :
             (calls[i].kind = "confirm" /\ ReceiptReturned(i))
             => LET p == wallet_pending_payments[calls[i].payment_id]
                    n == Len(wallet_transactions)
                IN /\ Len(wallet_transactions') = n + 1
                   /\ SubSeq(wallet_transactions', 1, n) = wallet_transactions
                   /\ wallet_transactions'[n + 1].type = "payment"
                   /\ wallet_transactions'[n + 1].to_address = p.to_address
                   /\ wallet_transactions'[n + 1].amount = p.amount
                   /\ wallet_transactions'[n + 1].memo = p.memo
                   /\ wallet_pending_payments'[calls[i].payment_id].status
                          = "confirmed"]_vars
    /\ [][\A u \in Users, pid \in DOMAIN wallet_pending_payments :
             (wallet_pending_payments[pid].status = "confirmed"
                  /\ confirm_payment(u, pid))
             => /\ UNCHANGED <<store, calls, user_ops>>
                /\ last' = Response("confirm", pid, "not_found")]_vars

\* C6: a pay() of at most the confirmation threshold that passes the limit
\* and balance checks creates no PendingPayment, and when its settlement
\* succeeds it records exactly one Transaction, of type payment, whose
\* tx_hash no other Transaction has.
C6_SmallPaySettlesOnce ==
    /\ [][\A u \in Payers, to \in PayDests, amount \in Amounts, memo \in Memos :
             (/\ amount <= DEFAULT_CONFIRM_THRESHOLD
              /\ today_total(u) + amount <= DEFAULT_DAILY_LIMIT
              /\ get_balance(smart_account_address(u)) >= amount
              /\ pay(u, to, amount, memo))
             => /\ UNCHANGED wallet_pending_payments
                /\ Len(calls') = Len(calls) + 1]_vars
    /\ [][\A i \in DOMAIN calls :
             (calls[i].kind = "pay" /\ ReceiptReturned(i))
             => LET n == Len(wallet_transactions)
                IN /\ Len(wallet_transactions') = n + 1
                   /\ SubSeq(wallet_transactions', 1, n) = wallet_transactions
                   /\ wallet_transactions'[n + 1].type = "payment"
                   /\ \A j \in 1..n : wallet_transactions[j].tx_hash
                          # wallet_transactions'[n + 1].tx_hash
                   /\ UNCHANGED wallet_pending_payments]_vars

\* C7: a pay() above the per-transaction limit fails and changes nothing:
\* no PendingPayment, Transaction or event, no operation started, built or
\* submitted.
C7_OverLimitPayIsInert ==
    [][\A u \in Payers, to \in PayDests, amount \in Amounts, memo \in Memos :
          (amount > DEFAULT_PER_TX_LIMIT /\ pay(u, to, amount, memo))
          => /\ UNCHANGED <<store, calls, user_ops, chain>>
             /\ last' = Response("pay", NoPayment, "per_tx_limit")]_vars

C7_Witness ==
    /\ last = Response("pay", NoPayment, "per_tx_limit")
    /\ wallet_pending_payments = <<>>
    /\ wallet_transactions = <<>>
    /\ calls = <<>>

EventCount(h) ==
    Cardinality({j \in DOMAIN wallet_events :
                     /\ wallet_events[j].type = "deposit_received"
                     /\ wallet_events[j].ref = h})

\* C9: once the scanner has gone over the block of a transfer it ingested,
\* however often and also when a tick over that block raised and the window
\* was scanned again, there is exactly one Transaction with the transfer's
\* tx_hash and exactly one deposit_received event for it.
C9_OneRowOneEvent ==
    \A r \in Range(wallet_transactions) :
        (/\ r.type = "deposit"
         /\ last_scanned_block # NoBlock
         /\ r.tx_hash[2] <= last_scanned_block)
        => HashCount(r.tx_hash) = 1 /\ EventCount(r.tx_hash) = 1

\* C10: a confirm() of a payment that is pending and past its expires_at
\* fails, sets the status to expired, and neither starts nor submits an
\* operation nor records a Transaction.
C10_ExpiredConfirmFails ==
    [][\A u \in Users, pid \in DOMAIN wallet_pending_payments :
          (/\ wallet_pending_payments[pid].user_id = u
           /\ wallet_pending_payments[pid].status = "pending"
           /\ now > wallet_pending_payments[pid].expires_at
           /\ confirm_payment(u, pid))
          => /\ wallet_pending_payments'[pid].status = "expired"
             /\ last' = Response("confirm", pid, "expired")
             /\ UNCHANGED <<wallet_users, wallet_transactions, wallet_events,
                            calls, user_ops, chain>>]_vars

C10_Witness ==
    /\ last = Response("confirm", 1, "expired")
    /\ wallet_pending_payments[1].status = "expired"
    /\ now > wallet_pending_payments[1].expires_at
    /\ calls = <<>>
    /\ wallet_transactions = <<>>

\* The payment pid is the caller's and pending.
OwnPending(u, pid) ==
    /\ pid \in DOMAIN wallet_pending_payments
    /\ wallet_pending_payments[pid].user_id = u
    /\ wallet_pending_payments[pid].status = "pending"

\* C11: cancel() of a pending payment sets it to cancelled and neither
\* starts nor submits an operation nor records a Transaction; cancel() of
\* a payment in any other status fails and leaves statuses, Transactions
\* and events as they were.
C11_CancelFlipsOrFails ==
    [][\A u \in Users, pid \in 1..MaxPayments :
          cancel_payment(u, pid)
          => IF OwnPending(u, pid)
             THEN /\ wallet_pending_payments'[pid].status = "cancelled"
                  /\ last' = Response("cancel", pid, "cancelled")
                  /\ UNCHANGED <<wallet_users, wallet_transactions, calls,
                                 user_ops, chain>>
             ELSE /\ last' = Response("cancel", pid, "not_found")
                  /\ UNCHANGED <<store, calls, user_ops, chain>>]_vars

\* A second cancel() of a cancelled payment was refused.
C11_Witness ==
    /\ last = Response("cancel", 1, "not_found")
    /\ 1 \in DOMAIN wallet_pending_payments
    /\ wallet_pending_payments[1].status = "cancelled"
    /\ wallet_transactions = <<>>
    /\ user_ops = <<>>

\* C12: cancel() of a payment that is pending but past its expires_at
\* fails and does not set the status to cancelled.
C12_ExpiredCancelFails ==
    [][\A u \in Users, pid \in 1..MaxPayments :
          (/\ OwnPending(u, pid)
           /\ now > wallet_pending_payments[pid].expires_at
           /\ cancel_payment(u, pid))
          => /\ wallet_pending_payments'[pid].status # "cancelled"
             /\ last' # Response("cancel", pid, "cancelled")]_vars

\* Call i ends in this step without a success receipt.
FailsNow(i) ==
    /\ calls[i].result = "running"
    /\ calls'[i].result \in {"protocol_error", "userop_failed", "timeout"}

SettlementTypes == {"payment", "withdrawal", "escrow_deposit", "contract_call"}
SettlementEvents ==
    {"payment_sent", "withdrawal_sent", "escrow_deposit", "contract_call"}

\* The operation of row r was included with the row's tx_hash.
SettledOnChain(r) ==
    \E k \in DOMAIN user_ops :
        /\ user_op_hash_of(k) = r.user_op_hash
        /\ user_ops[k].state = "included"
        /\ user_ops[k].tx_hash = r.tx_hash

\* C13: every settlement Transaction and settlement event belongs to an
\* operation whose receipt reported success; a call that ends because
\* sponsorship, signing or submission raised, the operation reverted or the
\* wait timed out writes no row and no event, leaves the deployed flag as
\* it was and leaves the statuses of the pending payments as they were.
C13_RecordedOnlyAfterSuccess ==
    /\ [](\A r \in Range(wallet_transactions) :
             r.type \in SettlementTypes => SettledOnChain(r))
    /\ [](\A e \in Range(wallet_events) :
             e.type \in SettlementEvents
             => \E r \in Range(wallet_transactions) :
                    r.tx_hash = e.ref /\ r.type \in SettlementTypes)
    /\ [][\A i \in DOMAIN calls : FailsNow(i) => UNCHANGED store]_vars

\* A confirm() whose operation reverted: nothing recorded, the payment
\* still pending, the account still flagged undeployed.
C13_Witness ==
    \E i \in DOMAIN calls :
        /\ calls[i].kind = "confirm"
        /\ calls[i].result = "userop_failed"
        /\ wallet_pending_payments[calls[i].payment_id].status = "pending"
        /\ wallet_transactions = <<>>
        /\ ~wallet_users[calls[i].user].smart_account_deployed

InFlight(i) == calls[i].pc \in {"sponsor", "send", "wait"}

\* C14: no two settlement calls of one account are at the same time
\* between their nonce read and their receipt, and no two operations
\* submitted for one account carry the same nonce.
C14_SettlementSerialized ==
    /\ \A i, j \in DOMAIN calls :
           (i # j /\ calls[i].user = calls[j].user)
           => ~(InFlight(i) /\ InFlight(j))
    /\ \A k, l \in DOMAIN user_ops :
           (k # l /\ user_ops[k].user = user_ops[l].user)
           => user_ops[k].nonce # user_ops[l].nonce

\* C15: the deployed flag of an account changes only from false to true,
\* and only in the step in which a call of that account got a success
\* receipt; a call that ends without one leaves every flag as it was.
C15_DeployedFlagMonotone ==
    /\ [][\A u \in Users :
             wallet_users'[u].smart_account_deployed
                 # wallet_users[u].smart_account_deployed
             => /\ ~wallet_users[u].smart_account_deployed
                /\ wallet_users'[u].smart_account_deployed
                /\ \E i \in DOMAIN calls :
                       /\ calls[i].user = u
                       /\ ReceiptReturned(i)
                       /\ calls'[i].pc = "done"]_vars
    /\ [][\A i \in DOMAIN calls :
             FailsNow(i)
             => \A u \in Users :
                    wallet_users'[u].smart_account_deployed
                        = wallet_users[u].smart_account_deployed]_vars

\* An account that started undeployed is flagged after its first
\* settlement, and a later call of it has ended.
C15_Witness ==
    \E k \in DOMAIN user_ops, i \in DOMAIN calls :
        /\ user_ops[k].init_code
        /\ user_ops[k].state = "included"
        /\ wallet_users[user_ops[k].user].smart_account_deployed
        /\ calls[i].user = user_ops[k].user
        /\ user_ops[k].call # i
        /\ calls[i].pc = "done"

\* The call data escrow_deposit() is to build for these arguments.
EscrowBatch(escrow_contract, usdc_contract, order, seller, amount) ==
    [fn |-> "executeBatch",
     batch |-> <<[to |-> usdc_contract, value |-> 0,
                  data |-> [fn |-> "approve", order |-> "",
                            who |-> escrow_contract,
                            amount |-> amount * 1000000]],
                 [to |-> escrow_contract, value |-> 0,
                  data |-> [fn |-> "deposit", order |-> order,
                            who |-> seller, amount |-> amount * 1000000]]>>]

\* C16: an escrow_deposit() that passes the balance check starts one call
\* whose call data is one executeBatch of approve(escrow, amount) on the
\* token contract followed by deposit(order, seller, amount) on the escrow
\* contract; the call submits at most one operation, carrying that call
\* data, and when its receipt reports success exactly one Transaction, of
\* type escrow_deposit, is recorded.
C16_EscrowIsOneBatch ==
    /\ [][\A u \in Payers, amount \in EscrowAmounts :
             (/\ get_balance(smart_account_address(u)) >= amount
              /\ escrow_deposit(u, EscrowContract, UsdcContract, OrderId,
                                Seller, amount))
             => /\ Len(calls') = Len(calls) + 1
                /\ calls'[Len(calls')].call_data
                       = EscrowBatch(EscrowContract, UsdcContract, OrderId,
                                     Seller, amount)
                /\ UNCHANGED <<store, user_ops, chain>>]_vars
    /\ [](\A i \in DOMAIN calls :
             calls[i].kind = "escrow_deposit"
             => /\ Cardinality({k \in DOMAIN user_ops :
                                    user_ops[k].call = i}) <= 1
                /\ \A k \in DOMAIN user_ops :
                       user_ops[k].call = i
                       => user_ops[k].call_data
                              = EscrowBatch(EscrowContract, UsdcContract,
                                            OrderId, Seller, calls[i].amount))
    /\ [][\A i \in DOMAIN calls :
             (calls[i].kind = "escrow_deposit" /\ ReceiptReturned(i))
             => LET n == Len(wallet_transactions)
                IN /\ Len(wallet_transactions') = n + 1
                   /\ SubSeq(wallet_transactions', 1, n) = wallet_transactions
                   /\ wallet_transactions'[n + 1].type = "escrow_deposit"
                   /\ wallet_transactions'[n + 1].amount = calls[i].amount]_vars

\* An escrow deposit settled and was recorded.
C16_Witness ==
    \E r \in Range(wallet_transactions), k \in DOMAIN user_ops :
        /\ r.type = "escrow_deposit"
        /\ r.user_op_hash = user_op_hash_of(k)
        /\ user_ops[k].state = "included"
        /\ Len(user_ops[k].call_data.batch) = 2

ClaimedRefusal(u, amount) ==
    IF amount > wallet_users[u].per_transaction_limit THEN "per_tx_limit"
    ELSE IF today_total(u) + amount > wallet_users[u].daily_limit
         THEN "daily_limit"
    ELSE IF get_balance(smart_account_address(u)) < amount
         THEN "insufficient_balance"
    ELSE "none"

\* C18: a pay() or withdraw() whose amount, added to the account's payment
\* and withdrawal Transactions of the day, exceeds the daily limit, or
\* whose amount exceeds the live balance, fails and creates no
\* PendingPayment, Transaction or event and starts no operation.  The
\* per-transaction limit is answered before the daily limit, the daily
\* limit before the balance, and the balance before the confirmation
\* threshold is looked at.
C18_LimitsThenBalance ==
    /\ [][\A u \in Payers, to \in PayDests, amount \in Amounts, memo \in Memos :
             (ClaimedRefusal(u, amount) # "none" /\ pay(u, to, amount, memo))
             => /\ last' = Response("pay", NoPayment, ClaimedRefusal(u, amount))
                /\ UNCHANGED <<store, calls, user_ops, chain>>]_vars
    /\ [][\A u \in Payers, to \in WithdrawDests, amount \in WithdrawAmounts,
            memo \in Memos :
             (ClaimedRefusal(u, amount) # "none"
                  /\ withdraw(u, to, amount, memo))
             => /\ last' = Response("withdraw", NoPayment,
                                    ClaimedRefusal(u, amount))
                /\ UNCHANGED <<store, calls, user_ops, chain>>]_vars

\* A pay() was refused for the daily limit in a state in which the balance
\* did not cover every amount either.
C18_Witness ==
    /\ last = Response("pay", NoPayment, "daily_limit")
    /\ today_total("u1") > 0
    /\ get_balance(smart_account_address("u1")) < 7
    /\ wallet_pending_payments = <<>>

\* C19: a request to pay an amount of zero or less fails validation, also
\* where a limit check would have refused it, and creates no
\* PendingPayment, Transaction or event and starts no operation.
C19_NonPositiveAmountRejected ==
    [][\A u \in Payers, to \in PayDests, amount \in RequestAmounts,
         memo \in Memos :
          (amount <= 0 /\ pay_endpoint(u, to, amount, memo))
          => /\ last' = Response("pay", NoPayment, "validation_error")
             /\ UNCHANGED <<store, calls, user_ops, chain>>]_vars

\* An invalid amount was refused in a state in which the day's total is
\* already above the daily limit.
C19_Witness ==
    /\ last = Response("pay", NoPayment, "validation_error")
    /\ today_total("u1") > wallet_users["u1"].daily_limit

\* C20: an operation is built with the initialization payload if and only
\* if the account has no code on chain at that moment.
C20_InitCodeIffUndeployed ==
    [][\A i \in 1..MaxCalls :
          (i \notin DOMAIN calls /\ i \in DOMAIN calls')
          => has_init_code(calls'[i]) = ~chain.deployed[calls'[i].user]]_vars

\* The reference operation: fixed sender, nonce 0, no factory, a fixed
\* call, gas and fee fields at zero, no paymaster.
ReferenceOp ==
    [sender |-> "0xSA1", nonce |-> "0x0", factory |-> None,
     factoryData |-> None, callData |-> transfer_call_data("0xsa2", 3),
     callGasLimit |-> "0x0", verificationGasLimit |-> "0x0",
     preVerificationGas |-> "0x0", maxFeePerGas |-> "0x0",
     maxPriorityFeePerGas |-> "0x0", signature |-> DummySignature,
     paymaster |-> None, paymasterData |-> None,
     paymasterVerificationGasLimit |-> None,
     paymasterPostOpGasLimit |-> None]

\* keccak(encode(keccak(encode(sender, nonce, keccak(initCode),
\* keccak(callData), gasLimitsPacked, preVerificationGas, feesPacked,
\* keccak(paymasterAndData))), entryPoint, chainId)) of the reference
\* operation, written out.
ReferenceVector ==
    <<"keccak256",
      <<"abi", <<"bytes32", "address", "uint256">>,
        << <<"keccak256",
             <<"abi",
               <<"address", "uint256", "bytes32", "bytes32", "bytes32",
                 "uint256", "bytes32", "bytes32">>,
               <<"0xSA1", <<>>,
                 <<"keccak256", <<>>>>,
                 <<"keccak256", <<transfer_call_data("0xsa2", 3)>>>>,
                 <<0, 0, 0, 0, 0, 0, 0, 0, 0, 0, 0, 0, 0, 0, 0, 0,
                   0, 0, 0, 0, 0, 0, 0, 0, 0, 0, 0, 0, 0, 0, 0, 0>>,
                 <<>>,
                 <<0, 0, 0, 0, 0, 0, 0, 0, 0, 0, 0, 0, 0, 0, 0, 0,
                   0, 0, 0, 0, 0, 0, 0, 0, 0, 0, 0, 0, 0, 0, 0, 0>>,
                 <<"keccak256", <<>>>> >> >> >>,
           "0xENTRYPOINT", 84532 >> >> >>

HashedReference(i) ==
    /\ calls[i].pc = "send"
    /\ set_signature(calls[i].op, DummySignature) = ReferenceOp

\* C22: the reference operation hashes to the reference vector, the two
\* rounds of keccak over the two encodings written out.
C22_ReferenceVector ==
    \A i \in DOMAIN calls : HashedReference(i) => calls[i].op_hash = ReferenceVector

C22_Witness == \E i \in DOMAIN calls : HashedReference(i)

SponsorOrder == <<"pm_getPaymasterStubData", "eth_estimateUserOperationGas", "eth_gasPrice", "pm_getPaymasterData", "sign_message">>

SignCount(log) ==
    Cardinality({k \in DOMAIN log : log[k].method = "sign_message"})

\* C23: every operation submitted to the relay is the operation that was
\* hashed and signed: the one hash of its call was taken of the operation
\* with the paymaster's final data, fees and gas merged in, the submitted
\* operation has that hash, and its signature is the signature of that
\* hash; the same holds of an operation signed and not yet submitted.
C23_SubmittedIsSigned ==
    /\ \A k \in DOMAIN user_ops :
         LET o == user_ops[k].op
             log == calls[user_ops[k].call].rpc_log
         IN /\ Len(log) = 5
            /\ SignCount(log) = 1
            /\ log[5].ok
            /\ log[5].request
                   = compute_user_op_hash(o, ENTRYPOINT_ADDRESS, CHAIN_ID)
            /\ o.signature = log[5].response
            /\ set_signature(o, DummySignature)
                   = merge(set_signature(o, DummySignature),
                           log[4].response, PaymasterKeys)
            /\ \A f \in DOMAIN o \ (PaymasterKeys \cup {"signature"}) :
                   IF f \in DOMAIN log[4].request
                   THEN o[f] = log[4].request[f]
                   ELSE o[f] = None
    /\ \A i \in DOMAIN calls :
         calls[i].pc = "send"
         => /\ calls[i].op_hash
                   = compute_user_op_hash(calls[i].op, ENTRYPOINT_ADDRESS,
                                          CHAIN_ID)
            /\ calls[i].op.signature
                   = sign_message(privy_wallet_id(calls[i].user),
                                  calls[i].op_hash)

\* A sponsored operation of a first settlement is with the relay.
C23_Witness ==
    \E k \in DOMAIN user_ops :
        /\ user_ops[k].op.paymasterData = "0xSIGNED"
        /\ user_ops[k].op.factory = SIMPLE_ACCOUNT_FACTORY
        /\ user_ops[k].op.maxFeePerGas = "0xb"

LogOfCall(i) == calls[i].rpc_log

Submitted(i) == \E k \in DOMAIN user_ops : user_ops[k].call = i

\* C24: the remote calls of a settlement are made in the order stub,
\* gas estimate, fee level, paymaster data, and only then signing and
\* submission; the estimate request carries the paymaster fields the stub
\* returned, the paymaster-data request carries the gas limits the
\* estimate returned and has both fee fields at the fee level fetched; a
\* call that raised is the last of its settlement, which then has signed
\* and submitted nothing.
C24_SponsorshipInOrder ==
    \A i \in DOMAIN calls :
      LET log == LogOfCall(i)
      IN /\ Len(log) <= 5
         /\ \A k \in DOMAIN log : log[k].method = SponsorOrder[k]
         /\ \A k \in DOMAIN log :
              ~log[k].ok => /\ k = Len(log)
                            /\ calls[i].pc = "done"
                            /\ calls[i].result = "protocol_error"
                            /\ ~Submitted(i)
         /\ Len(log) >= 2
              => \A key \in PaymasterKeys :
                   truthy(log[1].response[key])
                   => /\ key \in DOMAIN log[2].request
                      /\ log[2].request[key] = log[1].response[key]
         /\ Len(log) >= 4
              => /\ \A key \in GasKeys :
                      truthy(log[2].response[key])
                      => /\ key \in DOMAIN log[4].request
                         /\ log[4].request[key] = log[2].response[key]
                 /\ log[4].request.maxFeePerGas = log[3].response
                 /\ log[4].request.maxPriorityFeePerGas = log[3].response
         /\ (Submitted(i) \/ calls[i].pc \in {"send", "wait"})
              => /\ Len(log) = 5
                 /\ \A k \in DOMAIN log : log[k].ok

\* One settlement went through its sponsorship and is signed; another
\* stopped at the gas estimate, which raised.
C24_Witness ==
    \E i, j \in DOMAIN calls :
        /\ calls[i].pc = "send"
        /\ Len(LogOfCall(i)) = 5
        /\ calls[j].pc = "done"
        /\ Len(LogOfCall(j)) = 2
        /\ ~LogOfCall(j)[2].ok

\* C25: a turn of awaitSettlement either returns on a receipt with
\* success, or raises the failure on a receipt without it, or (no receipt
\* yet, or an error of the relay) waits one interval and polls again, or,
\* timeout/interval turns having passed, raises the timeout; no turn
\* submits anything.
C25_PollingOutcomes ==
    [][\A i \in DOMAIN calls :
         (calls[i].pc = "wait" /\ calls'[i] # calls[i])
         => /\ user_ops' = user_ops
            /\ calls[i].elapsed <= RECEIPT_TIMEOUT
            /\ \/ /\ has_receipt(i) /\ receipt_success(i)
                  /\ calls'[i].result \in {"completed", "store_error"}
               \/ /\ has_receipt(i) /\ ~receipt_success(i)
                  /\ calls'[i].result = "userop_failed"
                  /\ UNCHANGED store
               \/ /\ calls[i].elapsed < RECEIPT_TIMEOUT
                  /\ calls'[i].pc = "wait"
                  /\ calls'[i].elapsed = calls[i].elapsed + RECEIPT_INTERVAL
                  /\ UNCHANGED store
               \/ /\ calls[i].elapsed = RECEIPT_TIMEOUT
                  /\ calls'[i].result = "timeout"
                  /\ UNCHANGED store]_vars

\* C26: the tx_hash of every settlement Transaction is the transaction
\* hash of the receipt of its operation, and differs from the user_op_hash
\* stored beside it.
C26_TxHashIsNotOperationId ==
    \A r \in Range(wallet_transactions) :
        r.type \in SettlementTypes
        => /\ r.tx_hash # r.user_op_hash
           /\ \E k \in DOMAIN user_ops :
                  /\ user_op_hash_of(k) = r.user_op_hash
                  /\ user_ops[k].state = "included"
                  /\ user_ops[k].tx_hash = r.tx_hash

\* The deposit rows a step adds.
NewDeposits ==
    {wallet_transactions'[j] : j \in (DOMAIN wallet_transactions')
                                        \ (DOMAIN wallet_transactions)}

\* C27: the first tick of the scanner only sets the cursor to the current
\* height and writes nothing; no deposit is recorded before it, and every
\* later tick records deposits of blocks above the cursor only, a cursor
\* that never moves back: a transfer at or below the anchor is never
\* ingested.
C27_FirstTickAnchorsOnly ==
    /\ [](last_scanned_block = NoBlock => wallet_transactions = <<>>)
    /\ [][last_scanned_block = NoBlock
            => \/ UNCHANGED last_scanned_block
               \/ /\ last_scanned_block' = chain.height
                  /\ UNCHANGED <<store, chain>>]_vars
    /\ [][last_scanned_block # NoBlock
            => /\ last_scanned_block' >= last_scanned_block
               /\ \A r \in NewDeposits :
                      r.tx_hash[2] > last_scanned_block]_vars

\* A transfer to a known account from before the anchor has no
\* Transaction although a later window was scanned.
C27_Witness ==
    \E l \in Range(chain.logs) :
        /\ user_map_has(Lower(l.to))
        /\ last_scanned_block # NoBlock
        /\ l.block_number < last_scanned_block
        /\ \A r \in Range(wallet_transactions) : r.tx_hash # l.tx_hash
        /\ \E r \in Range(wallet_transactions) :
               r.tx_hash[2] > l.block_number

WindowScanned ==
    /\ last_scanned_block # NoBlock
    /\ last_scanned_block' > last_scanned_block

DepositCount(txs) ==
    Cardinality({j \in DOMAIN txs : txs[j].type = "deposit"})

DepositEventCount(evs) ==
    Cardinality({j \in DOMAIN evs : evs[j].type = "deposit_received"})

\* C29: when a tick has completed a window, every transfer of the window
\* to an owner or smart-account address of the service has a deposit
\* Transaction with its tx_hash for the account of that address, the tick
\* added as many deposit_received events as deposit Transactions, and no
\* row is for an address the service does not know.
C29_WindowFullyIngested ==
    [][WindowScanned
         => /\ \A l \in Range(chain.logs) :
                  (/\ l.block_number > last_scanned_block
                   /\ l.block_number <= last_scanned_block'
                   /\ user_map_has(Lower(l.to)))
                  => \E r \in Range(wallet_transactions') :
                         /\ r.type = "deposit"
                         /\ r.tx_hash = l.tx_hash
                         /\ r.user_id = user_map_get(Lower(l.to))
            /\ DepositCount(wallet_transactions')
                   - DepositCount(wallet_transactions)
               = DepositEventCount(wallet_events')
                   - DepositEventCount(wallet_events)
            /\ \A r \in NewDeposits : user_map_has(Lower(r.to_address))]_vars

\* The reaper makes a pass in this step.
ReaperPass ==
    /\ expired_payment_cleanup
    /\ wallet_pending_payments' # wallet_pending_payments

\* C30: every payment that is pending after its expires_at is eventually
\* expired, the loop running for ever; a pass of the reaper sets to expired
\* exactly the payments that are pending with expires_at before now,
\* leaves every other payment as it is and touches no Transaction.
C30_ReaperExpiresStale ==
    /\ [][ReaperPass
            => /\ \A pid \in DOMAIN wallet_pending_payments :
                      wallet_pending_payments'[pid] =
                          IF /\ wallet_pending_payments[pid].status = "pending"
                             /\ wallet_pending_payments[pid].expires_at < now
                          THEN [wallet_pending_payments[pid]
                                    EXCEPT !.status = "expired"]
                          ELSE wallet_pending_payments[pid]
               /\ UNCHANGED <<wallet_users, wallet_transactions,
                              wallet_events, calls, user_ops, chain>>]_vars
    /\ \A pid \in 1..MaxPayments :
           (/\ pid \in DOMAIN wallet_pending_payments
            /\ wallet_pending_payments[pid].status = "pending"
            /\ now > wallet_pending_payments[pid].expires_at)
           ~> (/\ pid \in DOMAIN wallet_pending_payments
               /\ wallet_pending_payments[pid].status = "expired")

\* C34: confirm() or cancel() of a payment by an account other than the
\* one that created it fails as not found and changes no payment, no
\* Transaction and no event, and starts no settlement, whether or not the
\* payment is past its expiry.
C34_OnlyOwnerResolves ==
    [][\A u \in Users, pid \in 1..MaxPayments :
         (/\ pid \in DOMAIN wallet_pending_payments
          /\ wallet_pending_payments[pid].user_id # u
          /\ (confirm_payment(u, pid) \/ cancel_payment(u, pid)))
         => /\ UNCHANGED <<store, calls, user_ops>>
            /\ last'.status = "not_found"]_vars

\* A confirm() of a payment that is pending and past its expiry was
\* answered not found: the caller was not its creator.
C34_Witness ==
    /\ last = Response("confirm", 1, "not_found")
    /\ 1 \in DOMAIN wallet_pending_payments
    /\ wallet_pending_payments[1].status = "pending"
    /\ now > wallet_pending_payments[1].expires_at

\* C35: for every pending payment, at every instant, confirm()'s expiry
\* test holds exactly when the reaper's filter selects the payment; no
\* step takes a payment from pending to expired unless now is strictly
\* after its expires_at.
C35_SameExpiryBoundary ==
    /\ [](\A pid \in DOMAIN wallet_pending_payments :
            wallet_pending_payments[pid].status = "pending"
            => (is_expired(wallet_pending_payments[pid], now)
                  <=> reaper_selects(wallet_pending_payments[pid], now)))
    /\ [][\A pid \in DOMAIN wallet_pending_payments :
            (/\ wallet_pending_payments[pid].status = "pending"
             /\ wallet_pending_payments'[pid].status = "expired")
            => now > wallet_pending_payments[pid].expires_at]_vars

\* A payment was confirmed at the instant of its expires_at.
C35_Witness ==
    \E pid \in DOMAIN wallet_pending_payments :
        /\ wallet_pending_payments[pid].status = "confirmed"
        /\ wallet_pending_payments[pid].expires_at = now
        /\ now > 0

\* C36: a tick of the scanner that raises leaves the cursor where it was;
\* the cursor moves over a window only when every transfer of the window
\* to a known address has its Transaction; and the loop goes on: again and
\* again the cursor stands at the latest block.
C36_FailedTickKeepsCursor ==
    /\ [][scan_raises => UNCHANGED last_scanned_block]_vars
    /\ [][(last_scanned_block # NoBlock
             /\ last_scanned_block' # last_scanned_block)
           => \A l \in Range(chain.logs) :
                (/\ l.block_number > last_scanned_block
                 /\ l.block_number <= last_scanned_block'
                 /\ user_map_has(Lower(l.to)))
                => \E r \in Range(wallet_transactions') :
                       r.tx_hash = l.tx_hash]_vars
    /\ []<>(last_scanned_block # NoBlock
               /\ last_scanned_block = chain.height)

\* A tick wrote the Transaction of a block and raised: the cursor is still
\* below that block.
C36_Witness ==
    /\ last_scanned_block # NoBlock
    /\ \E r \in Range(wallet_transactions) :
           r.tx_hash[2] > last_scanned_block

\* C32: with the limits fixed, the payments and withdrawals recorded for
\* an account on one day never add up to more than its daily limit.
C32_DailyTotalWithinLimit ==
    \A u \in Users : today_total(u) <= wallet_users[u].daily_limit

\* A confirm() of payment pid is between its start and its return.
ConfirmInProgress(pid) ==
    \E i \in ConfirmCalls(pid) : calls[i].pc # "done"

\* The Transactions recorded for operations of payment pid.
TransactionsOfPayment(pid) ==
    {n \in DOMAIN wallet_transactions :
        \E k \in OpsOfPayment(pid) :
            user_op_hash_of(k) = wallet_transactions[n].user_op_hash}

\* The operations of payment pid the chain has executed.
TransfersOfPayment(pid) ==
    {k \in OpsOfPayment(pid) : user_ops[k].state = "included"}

\* C33: while no confirm() of a payment is in progress, a confirmed payment
\* has exactly one Transaction, a cancelled or expired payment has no
\* Transaction and no executed transfer, and a pending payment has no
\* executed transfer.
C33_StatusAgreesWithLedger ==
    \A pid \in DOMAIN wallet_pending_payments :
        ~ConfirmInProgress(pid)
        => LET status == wallet_pending_payments[pid].status
           IN /\ status = "confirmed"
                 => Cardinality(TransactionsOfPayment(pid)) = 1
              /\ status \in {"cancelled", "expired"}
                 => /\ TransactionsOfPayment(pid) = {}
                    /\ TransfersOfPayment(pid) = {}
              /\ status = "pending" => TransfersOfPayment(pid) = {}

\* The 16 bytes that stand for n < 2^128, the most significant first.
Bytes16(n) == [k \in 1..16 |-> IF k <= 16 - Len(n) THEN 0 ELSE n[k - (16 - Len(n))]]

\* The values packed by the first round of a hash.
PackedValues(op_hash) == op_hash[2][3][1][2][3]

\* The operation has a gas or fee field of 2^128 or more.
TooWide(op) ==
    \E f \in {"verificationGasLimit", "callGasLimit", "maxPriorityFeePerGas", "maxFeePerGas"} :
        Len(hex_to_int(op[f])) > 16

\* C31: in the hash of an operation, gasLimitsPacked is 32 bytes whose high
\* 16 bytes are verificationGasLimit and whose low 16 bytes are
\* callGasLimit, and feesPacked is 32 bytes whose high 16 bytes are
\* maxPriorityFeePerGas and whose low 16 bytes are maxFeePerGas; an
\* operation with one of these fields of 2^128 or more is not hashed: the
\* call ends with an error and submits nothing.
C31_PackedHalves ==
    /\ [](\A i \in DOMAIN calls :
            calls[i].op_hash # NoOpHash
            => LET op == calls[i].op
                   gas_limits == PackedValues(calls[i].op_hash)[5]
                   fees == PackedValues(calls[i].op_hash)[7]
               IN /\ ~TooWide(op)
                  /\ Len(gas_limits) = 32
                  /\ SubSeq(gas_limits, 1, 16)
                        = Bytes16(hex_to_int(op.verificationGasLimit))
                  /\ SubSeq(gas_limits, 17, 32)
                        = Bytes16(hex_to_int(op.callGasLimit))
                  /\ Len(fees) = 32
                  /\ SubSeq(fees, 1, 16)
                        = Bytes16(hex_to_int(op.maxPriorityFeePerGas))
                  /\ SubSeq(fees, 17, 32)
                        = Bytes16(hex_to_int(op.maxFeePerGas)))
    /\ [][\A i \in DOMAIN calls :
            (calls[i].pc = "sign" /\ TooWide(calls[i].op) /\ calls'[i] # calls[i])
            => /\ calls'[i].pc = "done"
               /\ calls'[i].result = "protocol_error"
               /\ calls'[i].op_hash = NoOpHash
               /\ user_ops' = user_ops]_vars

\* An operation was hashed whose verificationGasLimit is 2^128 - 1 and
\* whose callGasLimit is 2^8, with a priority fee of 2^128 - 1 and a fee
\* cap of 2.
C31_Witness ==
    \E i \in DOMAIN calls :
        /\ calls[i].op_hash # NoOpHash
        /\ calls[i].op.verificationGasLimit = HexMaxUint128
        /\ calls[i].op.callGasLimit = Hex256
        /\ calls[i].op.maxPriorityFeePerGas = HexMaxUint128
        /\ calls[i].op.maxFeePerGas = "0x2"

====
